---- MODULE Spec2Model ----
(***************************************************************************)
(* A model of the streamdeck package: the device facade (Open, Close,      *)
(* Reset and the operations guarded by validateOpen), the polling loop     *)
(* Device.Listen, the per-control input slots with their press / release   *)
(* bookkeeping, the handler goroutines with WaitForRelease, and the page   *)
(* chunking loop imageSend.                                                *)
(***************************************************************************)
EXTENDS Integers, Sequences, FiniteSets, TLC

(***************************************************************************)
(* Bounds of the model (not program constants).                            *)
(***************************************************************************)
\* input reports the transport delivers in one behaviour
MaxReports == 3
\* handlers registered per control
MaxHandlers == 2
\* handler goroutines launched in one behaviour
MaxTasks == 3
\* successful Open calls in one behaviour
MaxOpens == 2
\* handlers registered on one device, over all its controls
MaxRegistered == 2
\* devices on the bus
MaxAttached == 3
\* calls of input.press and input.release in one behaviour
MaxEdges == 4

(***************************************************************************)
(* Small helpers.                                                          *)
(***************************************************************************)
Max(a, b) == IF a >= b THEN a ELSE b

Zeros(n) == [k \in 1..n |-> 0]

\* Go's s[a:b] on a sequence indexed from 0
Slice(s, a, b) == SubSeq(s, a + 1, b)

(***************************************************************************)
(* Model registry (models.go).                                             *)
(***************************************************************************)
\* image.Rectangle with Empty and In (package image)
Rect(x0, y0, x1, y1) == [minX |-> x0, minY |-> y0, maxX |-> x1, maxY |-> y1]

RectEmpty(r) == r.minX >= r.maxX \/ r.minY >= r.maxY

RectIn(r, s) ==
  IF RectEmpty(r) THEN TRUE
  ELSE /\ s.minX <= r.minX /\ r.maxX <= s.maxX
       /\ s.minY <= r.minY /\ r.maxY <= s.maxY

\* the zero Rectangle, the touchStripImageRect of a model without a touch strip
ZR == Rect(0, 0, 0, 0)

models ==
  [p \in {99, 128, 132, 154} |->
     CASE p = 99  -> [id |-> "mini", keyStart |-> 0, keyCount |-> 6, hdrLen |-> 15,
                      infoBar |-> FALSE, touchPointStart |-> 0, touchPointCount |-> 0,
                      dialStart |-> 0, dialCount |-> 0, touchStrip |-> FALSE,
                      touchStripImageRect |-> ZR]
       [] p = 128 -> [id |-> "mk2", keyStart |-> 3, keyCount |-> 15, hdrLen |-> 7,
                      infoBar |-> FALSE, touchPointStart |-> 0, touchPointCount |-> 0,
                      dialStart |-> 0, dialCount |-> 0, touchStrip |-> FALSE,
                      touchStripImageRect |-> ZR]
       [] p = 132 -> [id |-> "plus", keyStart |-> 3, keyCount |-> 8, hdrLen |-> 7,
                      infoBar |-> FALSE, touchPointStart |-> 0, touchPointCount |-> 0,
                      dialStart |-> 4, dialCount |-> 4, touchStrip |-> TRUE,
                      touchStripImageRect |-> Rect(0, 0, 800, 100)]
       [] p = 154 -> [id |-> "neo", keyStart |-> 3, keyCount |-> 8, hdrLen |-> 7,
                      infoBar |-> TRUE, touchPointStart |-> 11, touchPointCount |-> 2,
                      dialStart |-> 0, dialCount |-> 0, touchStrip |-> FALSE,
                      touchStripImageRect |-> ZR]]

modelAliases == [p \in {109} |-> 128]

elgatoVendorID == 4057

\* a usbhid.Device: what VendorId(), ProductId() and SerialNumber() return
usbDevice(vendor, product, serial) ==
  [vendor |-> vendor, product |-> product, serial |-> serial]

\* what getModel returns: the *model, named by the key of models it is the
\* value of (0 for nil), and the error with its message
modelResult(ref, err, msg) == [ref |-> ref, err |-> err, msg |-> msg]

\* a getModel without the alias table
getModelNoAlias(vendor, product) ==
  IF vendor # elgatoVendorID
    THEN modelResult(0, "ErrDeviceEnumerationFailed", "not an Elgato device")
  ELSE IF product \in DOMAIN models THEN modelResult(product, "nil", "")
  ELSE modelResult(0, "ErrDeviceEnumerationFailed", "device not supported")

\* getModel: the vendor, one level of aliasing, then the table
getModel(vendor, product) ==
  IF vendor # elgatoVendorID
    THEN modelResult(0, "ErrDeviceEnumerationFailed", "not an Elgato device")
  ELSE LET id == IF product \in DOMAIN modelAliases THEN modelAliases[product]
                 ELSE product
       IN  IF id \in DOMAIN models THEN modelResult(id, "nil", "")
           ELSE modelResult(0, "ErrDeviceEnumerationFailed", "device not supported")

\* enumerateFunc: the filter usbhid.Enumerate is called with
enumerateFunc(dev) ==
  /\ dev.vendor = elgatoVendorID
  /\ LET id == IF dev.product \in DOMAIN modelAliases THEN modelAliases[dev.product]
                ELSE dev.product
     IN  id \in DOMAIN models

ProductIds == DOMAIN models \cup DOMAIN modelAliases

\* the devices explored, one of each shape: keys only; keys, dials and a
\* touch strip; keys, touch points and an info bar
DevicePids == {99, 132, 154}

\* what a handler function does when it is called: it calls WaitForRelease
\* and returns, or it never returns
HandlerKinds == {"wait", "block"}

\* values a state byte takes: up, down, and down with another non-zero value
\* (the code only tests a byte for equality and for > 0)
Bytes == {0, 1, 2}

\* how far time.Now() advances from one report to the next
Ticks == {1}

VARIABLES
  pid,          \* product id of the transport device the Device wraps
  open,         \* Device.open
  devOpen,      \* whether the transport handle is open (usbhid Device.IsOpen)
  listen,       \* Device.listen: 0 is nil, otherwise the identity of a channel
  closedChans,  \* identities of the channels that have been closed
  nextChan,     \* identity the next make(chan) returns
  inputs,       \* Device.inputs: <<>> is nil, otherwise one slot per key and touch point
  keyStates,    \* Device.keyStates
  now,          \* the reading of time.Now()
  lpc,          \* position of the goroutine running Device.Listen
  lret,         \* what the last Listen call returned
  cpc,          \* position of the goroutine running Device.Close
  cio,          \* the transport operations the running Close has made so far
  tasks,        \* the handler goroutines launched so far
  lastCall,     \* the last facade call that returned: [op, err, io]
  nReports,     \* input reports delivered so far
  nOpens,       \* successful Open calls so far
  lastReport,   \* state bytes of the previous primary report, as the device sent them
  events,       \* history: the press and release calls that took effect, in order
  send,         \* the imageSend call in progress: its arguments, locals and pages
  errCh,        \* the channel Listen was given for the errors of the handlers, and the logger
  dialInputs,   \* Device.dialInputs: <<>> is nil, otherwise one slot per dial
  touchStripInput, \* Device.touchStripInput: the slot of the touch strip, allocated or nil
  walk,         \* the ForEachKey / ForEachTouchPoint / ForEachDial call in progress
  attached,     \* the USB HID devices on the bus, in the order usbhid.Enumerate lists them
  lookup,       \* the last call of getModel or GetDevice and what it returned
  imgCall,      \* the last call of a function of image.go and what it returned
  query,        \* the last capability query of a Device and what it returned
  dialStates,   \* Device.dialStates
  reg           \* the registrations in progress, one per registering goroutine

vars == <<pid, open, devOpen, listen, closedChans, nextChan, inputs, keyStates, now,
          lpc, lret, cpc, cio, tasks, lastCall, nReports, nOpens, lastReport, events,
          send, errCh, dialInputs, touchStripInput, walk, attached, lookup, imgCall, query,
          dialStates, reg>>

dmodel == models[getModel(elgatoVendorID, pid).ref]

\* the goroutines that register handlers while others do
RegTasks == {1, 2}

\* a goroutine that is in no registration
regIdle == [pc |-> "idle", key |-> 0, fn |-> "nil", err |-> "none"]

noReg == [t \in RegTasks |-> regIdle]

\* number of key + touch point slots of the model
NumSlots == dmodel.keyCount + dmodel.touchPointCount

(***************************************************************************)
(* Device.IsOpen, validate* (streamdeck.go).                               *)
(***************************************************************************)
IsOpen == open /\ devOpen

\* a validateOpen that lets every call through
validateOpenLax == "nil"

validateOpen == IF ~IsOpen THEN "ErrDeviceIsClosed" ELSE "nil"

validateKey(key) ==
  IF key < 1 \/ key >= 1 + dmodel.keyCount THEN "ErrKeyInvalid" ELSE "nil"

\* a validateTouchPoint that looks at the identifier before it looks at the
\* model
validateTouchPointRangeFirst(tp) ==
  IF tp < 1 \/ tp >= 1 + dmodel.touchPointCount THEN "ErrTouchPointInvalid"
  ELSE IF dmodel.touchPointCount = 0 THEN "ErrDeviceTouchPointNotSupported"
  ELSE "nil"

validateTouchPoint(tp) ==
  IF dmodel.touchPointCount = 0 THEN "ErrDeviceTouchPointNotSupported"
  ELSE IF tp < 1 \/ tp >= 1 + dmodel.touchPointCount THEN "ErrTouchPointInvalid"
  ELSE "nil"

validateInfoBar ==
  IF ~dmodel.infoBar THEN "ErrDeviceInfoBarNotSupported" ELSE "nil"

validateDial(di) ==
  IF di < 1 \/ di >= 1 + dmodel.dialCount THEN "ErrDialInvalid" ELSE "nil"

validateTouchStrip ==
  IF ~dmodel.touchStrip THEN "ErrDeviceTouchStripNotSupported" ELSE "nil"

\* validateTouchStripRectangle (image.go)
validateTouchStripRectangle(rect) ==
  IF ~RectIn(rect, dmodel.touchStripImageRect) THEN "TouchStripImageRectangleError"
  ELSE "nil"

(***************************************************************************)
(* Input slots (input.go).                                                 *)
(***************************************************************************)
\* a slot as newInputs builds it: no channel, zero times, no handlers
newInput ==
  [channel |-> 0, pressed |-> 0, released |-> 0, duration |-> 0, handlers |-> <<>>]

\* newInputs: the keys KEY_1.. first, then the touch points TOUCH_POINT_1..
newInputs(numKeys, numTouchPoints) == [i \in 1..(numKeys + numTouchPoints) |-> newInput]

\* a dial slot as newDialInputs builds it, and the table of them
newDialInput ==
  [channel |-> 0, pressed |-> 0, released |-> 0, duration |-> 0,
   switchHandlers |-> <<>>, rotateHandlers |-> <<>>]

newDialInputs(numDials) == [i \in 1..numDials |-> newDialInput]

\* Device.touchStripInput when nil, and as newTouchStripInput builds it
noTouchStripInput == [alloc |-> FALSE, touchHandlers |-> <<>>, swipeHandlers |-> <<>>]

newTouchStripInput == [alloc |-> TRUE, touchHandlers |-> <<>>, swipeHandlers |-> <<>>]

\* the slot, in Device.inputs, of a key and of a touch point
KeySlot(key) == key

\* a touch point slot counted from the start of the table
TouchPointSlotFromStart(tp) == tp

TouchPointSlot(tp) == dmodel.keyCount + tp

\* a press that calls every handler twice
launchTwice(in, i, serial) ==
  LET once == [h \in 1..Len(in.handlers) |->
                 [slot |-> i, h |-> h, kind |-> in.handlers[h], press |-> serial,
                  pc |-> "start", ch |-> 0, ret |-> -1]]
  IN  once \o once

\* the goroutines input.press starts: one per registered handler, in order
launch(in, i, serial) ==
  [h \in 1..Len(in.handlers) |->
     [slot |-> i, h |-> h, kind |-> in.handlers[h], press |-> serial,
      pc |-> "start", ch |-> 0, ret |-> -1]]

\* input.press at time t on slot i of the engine state st
press(st, i, t) ==
  LET in     == st.inputs[i]
      serial == Len(st.events) + 1
      in2    == [in EXCEPT !.channel = st.nextChan, !.pressed = t,
                           !.released = 0, !.duration = 0]
  IN  [st EXCEPT !.inputs   = [st.inputs EXCEPT ![i] = in2],
                 !.nextChan = st.nextChan + 1,
                 !.tasks    = st.tasks \o launch(in, i, serial),
                 !.events   = Append(st.events,
                                [ev |-> "press", slot |-> i, t |-> t,
                                 ch |-> st.nextChan, n |-> Len(in.handlers)])]

\* a release that does not look at the release already recorded
releaseAgain(st, i, t) ==
  LET in  == st.inputs[i]
      in2 == [in EXCEPT !.released = t, !.duration = t - in.pressed, !.pressed = 0]
  IN  [st EXCEPT !.inputs = [st.inputs EXCEPT ![i] = in2],
                 !.closedChans = st.closedChans \cup {in.channel},
                 !.events = Append(st.events,
                              [ev |-> "release", slot |-> i, t |-> t,
                               ch |-> in.channel, n |-> t - in.pressed]),
                 !.panic = in.channel = 0 \/ in.channel \in st.closedChans]

\* input.release at time t on slot i: nothing when a release is already
\* recorded; close(in.channel) panics on a nil channel, after the assignments
release(st, i, t) ==
  LET in  == st.inputs[i]
      in2 == [in EXCEPT !.released = t, !.duration = t - in.pressed, !.pressed = 0]
  IN  IF in.released # 0 THEN st
      ELSE IF in.channel = 0
        THEN [st EXCEPT !.inputs = [st.inputs EXCEPT ![i] = in2],
                        !.events = Append(st.events,
                                     [ev |-> "release", slot |-> i, t |-> t,
                                      ch |-> 0, n |-> t - in.pressed]),
                        !.panic = TRUE]
        ELSE [st EXCEPT !.inputs = [st.inputs EXCEPT ![i] = in2],
                        !.closedChans = st.closedChans \cup {in.channel},
                        !.events = Append(st.events,
                                     [ev |-> "release", slot |-> i, t |-> t,
                                      ch |-> in.channel, n |-> t - in.pressed])]

\* the edge loop without the test of the length of the table: an edge
\* outside the table indexes d.inputs out of range, which panics
RECURSIVE dispatchEdgesUnchecked(_, _, _, _, _)
dispatchEdgesUnchecked(i, states, prev, t, st) ==
  IF i > Len(states) \/ st.panic THEN st
  ELSE IF states[i] = prev[i] THEN dispatchEdgesUnchecked(i + 1, states, prev, t, st)
  ELSE IF i > Len(st.inputs) THEN [st EXCEPT !.panic = TRUE]
  ELSE IF states[i] > 0 THEN dispatchEdgesUnchecked(i + 1, states, prev, t, press(st, i, t))
  ELSE dispatchEdgesUnchecked(i + 1, states, prev, t, release(st, i, t))

\* the edge loop of Listen over the state bytes, from index i on
RECURSIVE dispatchEdges(_, _, _, _, _)
dispatchEdges(i, states, prev, t, st) ==
  IF i > Len(states) \/ st.panic THEN st
  ELSE IF states[i] = prev[i] THEN dispatchEdges(i + 1, states, prev, t, st)
  ELSE IF i > Len(st.inputs) THEN dispatchEdges(i + 1, states, prev, t, st)
  ELSE IF states[i] > 0 THEN dispatchEdges(i + 1, states, prev, t, press(st, i, t))
  ELSE dispatchEdges(i + 1, states, prev, t, release(st, i, t))

\* the state bytes Listen takes from a primary report: the key bytes, then
\* the touch point bytes when the model has touch points
reportStates(buf) ==
  LET keys == Slice(buf, dmodel.keyStart, dmodel.keyStart + dmodel.keyCount)
  IN  IF dmodel.touchPointCount > 0
        THEN keys \o Slice(buf, dmodel.touchPointStart,
                           dmodel.touchPointStart + dmodel.touchPointCount)
        ELSE keys

\* buf[k], counted from 0 as the code counts
at(buf, k) == buf[k + 1]

\* int8(b) of a byte b
int8(b) == IF b >= 128 THEN b - 256 ELSE b

\* the goroutines a dispatch on control i starts: one per handler, in order
launchHandlers(handlers, i, serial) ==
  [h \in 1..Len(handlers) |->
     [slot |-> i, h |-> h, kind |-> handlers[h], press |-> serial,
      pc |-> "start", ch |-> 0, ret |-> -1]]

\* input.press at time t on dial i: the switch handlers are started
pressDial(st, i, t) ==
  LET in     == st.dialInputs[i]
      serial == Len(st.events) + 1
      in2    == [in EXCEPT !.channel = st.nextChan, !.pressed = t,
                           !.released = 0, !.duration = 0]
  IN  [st EXCEPT !.dialInputs = [st.dialInputs EXCEPT ![i] = in2],
                 !.nextChan   = st.nextChan + 1,
                 !.tasks      = st.tasks \o launchHandlers(in.switchHandlers, i, serial),
                 !.events     = Append(st.events,
                                  [ev |-> "dialPress", slot |-> i, t |-> t,
                                   ch |-> st.nextChan, n |-> Len(in.switchHandlers)])]

\* input.release at time t on dial i
releaseDial(st, i, t) ==
  LET in  == st.dialInputs[i]
      in2 == [in EXCEPT !.released = t, !.duration = t - in.pressed, !.pressed = 0]
  IN  IF in.released # 0 THEN st
      ELSE IF in.channel = 0
        THEN [st EXCEPT !.dialInputs = [st.dialInputs EXCEPT ![i] = in2],
                        !.events = Append(st.events,
                                     [ev |-> "dialRelease", slot |-> i, t |-> t,
                                      ch |-> 0, n |-> t - in.pressed]),
                        !.panic = TRUE]
        ELSE [st EXCEPT !.dialInputs = [st.dialInputs EXCEPT ![i] = in2],
                        !.closedChans = st.closedChans \cup {in.channel},
                        !.events = Append(st.events,
                                     [ev |-> "dialRelease", slot |-> i, t |-> t,
                                      ch |-> in.channel, n |-> t - in.pressed])]

\* input.rotate on dial i: the rotate handlers are started with delta
rotate(st, i, delta) ==
  LET in     == st.dialInputs[i]
      serial == Len(st.events) + 1
  IN  [st EXCEPT !.tasks  = st.tasks \o launchHandlers(in.rotateHandlers, i, serial),
                 !.events = Append(st.events,
                              [ev |-> "rotate", slot |-> i, delta |-> delta,
                               n |-> Len(in.rotateHandlers)])]

\* input.touch: the touch handlers are started with the type and the point
touch(st, t, p) ==
  LET in     == st.touchStripInput
      serial == Len(st.events) + 1
  IN  [st EXCEPT !.tasks  = st.tasks \o launchHandlers(in.touchHandlers, 0, serial),
                 !.events = Append(st.events,
                              [ev |-> "touch", slot |-> 0, type |-> t, p |-> p,
                               n |-> Len(in.touchHandlers)])]

\* input.swipe: the swipe handlers are started with the two points
swipe(st, origin, destination) ==
  LET in     == st.touchStripInput
      serial == Len(st.events) + 1
  IN  [st EXCEPT !.tasks  = st.tasks \o launchHandlers(in.swipeHandlers, 0, serial),
                 !.events = Append(st.events,
                              [ev |-> "swipe", slot |-> 0, origin |-> origin,
                               destination |-> destination,
                               n |-> Len(in.swipeHandlers)])]

TOUCH_STRIP_TOUCH_TYPE_SHORT == 1

TOUCH_STRIP_TOUCH_TYPE_LONG == 2

\* a point read with the first of its four bytes at buf[k], each coordinate
\* with the byte that counts most first
pointAtHighFirst(buf, k) ==
  [X |-> at(buf, k) * 256 + at(buf, k + 1), Y |-> at(buf, k + 2) * 256 + at(buf, k + 3)]

\* image.Point{X: int(buf[k+1])<<8 | int(buf[k]),
\*             Y: int(buf[k+3])<<8 | int(buf[k+2])}
pointAt(buf, k) ==
  [X |-> at(buf, k + 1) * 256 + at(buf, k), Y |-> at(buf, k + 3) * 256 + at(buf, k + 2)]

\* the touch strip branch of Listen
listenTouchStrip(buf, st) ==
  IF ~st.touchStripInput.alloc THEN st
  ELSE IF at(buf, 3) \in {1, 2}
    THEN IF Len(buf) < 9 THEN st
         ELSE touch(st, IF at(buf, 3) = 1 THEN TOUCH_STRIP_TOUCH_TYPE_SHORT
                        ELSE TOUCH_STRIP_TOUCH_TYPE_LONG,
                    pointAt(buf, 5))
  ELSE IF at(buf, 3) = 3
    THEN IF Len(buf) < 13 THEN st
         ELSE swipe(st, pointAt(buf, 5), pointAt(buf, 9))
  ELSE st

\* the edge loop of Listen over the dial bytes, from index i on
RECURSIVE dispatchDialEdges(_, _, _, _, _)
dispatchDialEdges(i, states, prev, t, st) ==
  IF i > Len(states) \/ st.panic THEN st
  ELSE IF states[i] = prev[i] THEN dispatchDialEdges(i + 1, states, prev, t, st)
  ELSE IF i > Len(st.dialInputs) THEN dispatchDialEdges(i + 1, states, prev, t, st)
  ELSE IF states[i] > 0 THEN dispatchDialEdges(i + 1, states, prev, t, pressDial(st, i, t))
  ELSE dispatchDialEdges(i + 1, states, prev, t, releaseDial(st, i, t))

\* the rotation loop of Listen over the dial bytes, from index i on
RECURSIVE dispatchRotations(_, _, _)
dispatchRotations(i, states, st) ==
  IF i > Len(states) THEN st
  ELSE IF i > Len(st.dialInputs) THEN dispatchRotations(i + 1, states, st)
  ELSE IF states[i] # 0
    THEN dispatchRotations(i + 1, states, rotate(st, i, int8(states[i])))
  ELSE dispatchRotations(i + 1, states, st)

\* the dial branch of Listen
\* a dial report whose rotations are stored as the snapshot of the edges
listenDialsStoring(buf, t, st) ==
  LET states == Slice(buf, dmodel.dialStart, dmodel.dialStart + dmodel.dialCount)
  IN  IF Len(buf) < dmodel.dialStart + dmodel.dialCount THEN [st EXCEPT !.panic = TRUE]
      ELSE IF at(buf, 3) = 0
        THEN LET r == dispatchDialEdges(1, states, st.dialStates, t, st)
             IN  IF r.panic THEN r ELSE [r EXCEPT !.dialStates = states]
      ELSE IF at(buf, 3) = 1
        THEN [dispatchRotations(1, states, st) EXCEPT !.dialStates = states]
      ELSE st

listenDials(buf, t, st) ==
  LET states == Slice(buf, dmodel.dialStart, dmodel.dialStart + dmodel.dialCount)
  IN  IF Len(buf) < dmodel.dialStart + dmodel.dialCount THEN [st EXCEPT !.panic = TRUE]
      ELSE IF at(buf, 3) = 0
        THEN LET r == dispatchDialEdges(1, states, st.dialStates, t, st)
             IN  IF r.panic THEN r ELSE [r EXCEPT !.dialStates = states]
      ELSE IF at(buf, 3) = 1 THEN dispatchRotations(1, states, st)
      ELSE st

\* the report goes to the touch strip branch, to the dial branch
isTouchStripReport(buf) == at(buf, 0) = 2 /\ dmodel.touchStrip

isDialReport(buf) == ~isTouchStripReport(buf) /\ at(buf, 0) = 3 /\ dmodel.dialCount > 0

\* the report is taken for one of keys and touch points
isKeyReport(buf) == ~isTouchStripReport(buf) /\ ~isDialReport(buf)

\* the key and touch point branch of Listen
listenKeys(buf, t, st) ==
  LET states == reportStates(buf)
      r      == dispatchEdges(1, states, st.keyStates, t, st)
  IN  IF r.panic THEN r ELSE [r EXCEPT !.keyStates = states]

\* one turn of the loop of Listen on a report with id 1
listenReport(buf, t, st) ==
  IF isTouchStripReport(buf) THEN listenTouchStrip(buf, st)
  ELSE IF isDialReport(buf) THEN listenDials(buf, t, st)
  ELSE listenKeys(buf, t, st)

(***************************************************************************)
(* The input reports of the device.                                        *)
(***************************************************************************)
\* length of the report buffer: long enough for every offset the model reads
BufLen == Max(dmodel.keyStart + dmodel.keyCount,
              dmodel.touchPointStart + dmodel.touchPointCount)

\* offset, in the report buffer, of the state byte of slot i
SlotOffset(i) ==
  IF i <= dmodel.keyCount THEN dmodel.keyStart + i - 1
  ELSE dmodel.touchPointStart + (i - dmodel.keyCount - 1)

\* the control that is touched in the behaviours explored: the first touch
\* point on a model with touch points, the first key on the others
ActiveKeys == IF dmodel.touchPointCount > 0 THEN {} ELSE {1}

ActiveTouchPoints == IF dmodel.touchPointCount > 0 THEN {1} ELSE {}

ActiveSlots ==
  {KeySlot(key) : key \in ActiveKeys} \cup {TouchPointSlot(tp) : tp \in ActiveTouchPoints}

\* a primary report: byte 0 is the report kind when the keys start later,
\* the active controls carry vals, every other byte is 0
mkReport(vals) ==
  [k \in 1..BufLen |->
     IF \E i \in ActiveSlots : SlotOffset(i) = k - 1
       THEN vals[CHOOSE i \in ActiveSlots : SlotOffset(i) = k - 1]
       ELSE IF k = 1 /\ dmodel.keyStart > 0 THEN 1 ELSE 0]

Reports == {mkReport(vals) : vals \in [ActiveSlots -> Bytes]}

(***************************************************************************)
(* imageSend (image.go): the pages of one image.                           *)
(***************************************************************************)
\* number of values of a uint16 (start, end, size, the report length) and
\* of a byte (page)
Uint16 == 65536

Byte == 256

\* the locals of imageSend when it enters its loop on a payload of len
\* bytes, a report of cap bytes and a header of hdr bytes, with the summary
\* of the pages written: their number, the sum of their sizes, the offset
\* the next chunk has to begin at for the chunks to be the payload in order
\* (-1 once a chunk began elsewhere), the pages marked last, and whether a
\* page was written after a page marked last
newSend(len, cap, hdr) ==
  [pc |-> "loop", len |-> len, cap |-> cap, hdr |-> hdr,
   start |-> 0, page |-> 0, last |-> 0,
   nPages |-> 0, total |-> 0, next |-> 0, nLast |-> 0, afterLast |-> FALSE]

\* no imageSend in progress
noSend == [newSend(0, 0, 0) EXCEPT !.pc = "idle"]

\* one turn of the loop; ok tells whether SetOutputReport succeeds
SendPage(ok) ==
  /\ send.pc = "loop"
  /\ LET step == (send.cap - send.hdr) % Uint16
         end0 == (send.start + step) % Uint16
         l    == send.len % Uint16
         end  == IF end0 >= l THEN l ELSE end0
         last == IF end0 >= l THEN 1 ELSE send.last
         size == end - send.start
     IN  IF send.start > end
           THEN send' = [send EXCEPT !.pc = "panic", !.last = last]
         ELSE IF ~ok
           THEN send' = [send EXCEPT !.pc = "failed", !.last = last]
         ELSE send' = [send EXCEPT
                         !.pc = IF last = 0 THEN "loop" ELSE "done",
                         !.last = last,
                         !.start = (send.start + step) % Uint16,
                         !.page = (send.page + 1) % Byte,
                         !.nPages = send.nPages + 1,
                         !.total = send.total + size,
                         !.next = IF send.next = send.start THEN end ELSE -1,
                         !.nLast = send.nLast + last,
                         !.afterLast = send.afterLast \/ send.nLast > 0]
  /\ UNCHANGED <<pid, reg, dialStates, query, imgCall, lookup, attached, walk,
                 touchStripInput,
                 dialInputs, errCh, open, devOpen, listen, closedChans, nextChan, inputs,
                 keyStates, now, lpc, lret, cpc, cio, tasks, lastCall, nReports, nOpens,
                 lastReport, events>>

(***************************************************************************)
(* The error channel given to Listen (streamdeck.go, Listen; input.go,     *)
(* press and rotate).                                                      *)
(***************************************************************************)
\* a channel of capacity cap (kind "chan") or the nil channel (kind "nil"),
\* with the errors it buffers; the goroutine of the caller that receives
\* from it ("none": nobody ever does; "idle": not in a receive; "waiting":
\* blocked in a receive), the errors received, and the lines of the logger
newErrCh(kind, cap, recv) ==
  [kind |-> kind, cap |-> cap, buf |-> <<>>, recv |-> recv, got |-> <<>>, log |-> <<>>]

\* Listen(nil), nobody receiving
noErrCh == newErrCh("nil", 0, "none")

\* whether a send on ch can proceed at once: a receiver is blocked in a
\* receive, or the buffer has room
sendReady(ch) == ch.kind = "chan" /\ (ch.recv = "waiting" \/ Len(ch.buf) < ch.cap)

\* a send statement that is not in a select with a default case
selectBranchNoDefault(ch) == IF sendReady(ch) THEN "send" ELSE "block"

\* select { case errCh <- e: default: }: the branch taken
selectBranch(ch) == IF sendReady(ch) THEN "send" ELSE "default"

\* the send itself: handed to the blocked receiver, or buffered
chanSend(ch, e) ==
  IF ch.recv = "waiting"
    THEN [ch EXCEPT !.got = Append(ch.got, e), !.recv = "idle"]
    ELSE [ch EXCEPT !.buf = Append(ch.buf, e)]

\* a delivery that logs the error when the channel cannot take it
deliverOrLog(ch, e) ==
  IF ch.kind # "nil" /\ sendReady(ch) THEN chanSend(ch, e)
  ELSE [ch EXCEPT !.log = Append(ch.log, e)]

\* if errCh != nil { select { case errCh <- e: default: } }
\* else { log.Printf("error: %s", e) }
deliver(ch, e) ==
  IF ch.kind # "nil"
    THEN IF selectBranch(ch) = "send" THEN chanSend(ch, e) ELSE ch
    ELSE [ch EXCEPT !.log = Append(ch.log, e)]

(***************************************************************************)
(* ForEachKey, ForEachTouchPoint, ForEachDial (streamdeck.go).             *)
(***************************************************************************)
\* the number of controls the loop of op runs over
forEachCount(op) ==
  CASE op = "ForEachKey" -> dmodel.keyCount
    [] op = "ForEachTouchPoint" -> dmodel.touchPointCount
    [] op = "ForEachDial" -> dmodel.dialCount

\* a callback: nil, or a function that returns an error for the identifiers
\* of fails and nil for the others
callback(fails) == [nil |-> FALSE, fails |-> fails]

nilCallback == [nil |-> TRUE, fails |-> {}]

\* a call of op with callback cb at the top of its loop: the loop variable,
\* a byte, and the calls of cb made so far
newWalk(op, cb) ==
  [pc |-> "loop", op |-> op, cb |-> cb, id |-> 1, visited |-> <<>>, ret |-> "nil"]

\* no call in progress
noWalk == [newWalk("none", nilCallback) EXCEPT !.pc = "idle"]

\* the error cb returns for identifier id
cbErr(id) == <<"cbError", id>>

\* entry: if cb == nil { return errors.New(...) }
ForEachStart(op, cb) ==
  /\ walk.pc \in {"idle", "returned"}
  /\ walk' = IF cb.nil
               THEN [newWalk(op, cb) EXCEPT !.pc = "returned", !.ret = "ErrCallbackNil"]
               ELSE newWalk(op, cb)
  /\ UNCHANGED <<pid, send, reg, dialStates, query, imgCall, lookup, attached, touchStripInput,
                 dialInputs, errCh, open, devOpen, listen, closedChans, nextChan, inputs,
                 keyStates, now, lpc, lret, cpc, cio, tasks, lastCall, nReports, nOpens,
                 lastReport, events>>

\* a loop that goes on after an error and returns the last one
ForEachTurnGoOn ==
  /\ walk.pc = "loop"
  /\ walk' =
       IF walk.id < (1 + forEachCount(walk.op)) % Byte
         THEN [walk EXCEPT !.visited = Append(walk.visited, walk.id),
                           !.id = (walk.id + 1) % Byte,
                           !.ret = IF walk.id \in walk.cb.fails THEN cbErr(walk.id) ELSE walk.ret]
         ELSE [walk EXCEPT !.pc = "returned"]
  /\ UNCHANGED <<pid, send, reg, dialStates, query, imgCall, lookup, attached, touchStripInput,
                 dialInputs, errCh, open, devOpen, listen, closedChans, nextChan, inputs,
                 keyStates, now, lpc, lret, cpc, cio, tasks, lastCall, nReports, nOpens,
                 lastReport, events>>

\* one turn of the loop: for key := KEY_1; key < KEY_1+KeyID(count); key++
\* { if err := cb(key); err != nil { return err } } return nil
ForEachTurn ==
  /\ walk.pc = "loop"
  /\ walk' =
       IF walk.id < (1 + forEachCount(walk.op)) % Byte
         THEN IF walk.id \in walk.cb.fails
                THEN [walk EXCEPT !.visited = Append(walk.visited, walk.id),
                                  !.pc = "returned", !.ret = cbErr(walk.id)]
                ELSE [walk EXCEPT !.visited = Append(walk.visited, walk.id),
                                  !.id = (walk.id + 1) % Byte]
         ELSE [walk EXCEPT !.pc = "returned", !.ret = "nil"]
  /\ UNCHANGED <<pid, send, reg, dialStates, query, imgCall, lookup, attached, touchStripInput,
                 dialInputs, errCh, open, devOpen, listen, closedChans, nextChan, inputs,
                 keyStates, now, lpc, lret, cpc, cio, tasks, lastCall, nReports, nOpens,
                 lastReport, events>>

(***************************************************************************)
(* GetDevice (streamdeck.go) and the calls of getModel.                    *)
(***************************************************************************)
\* what a call returned: the error and its message, the device (its place in
\* attached, 0 for nil) and the model (its key in models, 0 for nil)
lookupResult(op, arg, err, msg, dev, ref) ==
  [op |-> op, arg |-> arg, err |-> err, msg |-> msg, dev |-> dev, model |-> ref]

noLookup == lookupResult("none", <<>>, "nil", "", 0, 0)

\* the places in attached of the devices usbhid.Enumerate(enumerateFunc)
\* returns, in the order of the bus
RECURSIVE enumerated(_)
enumerated(n) ==
  IF n = 0 THEN <<>>
  ELSE IF enumerateFunc(attached[n]) THEN Append(enumerated(n - 1), n)
  ELSE enumerated(n - 1)

\* the device at place n with the model getModel finds for it
deviceAt(op, arg, n) ==
  LET m == getModel(attached[n].vendor, attached[n].product)
  IN  IF m.err # "nil" THEN lookupResult(op, arg, m.err, m.msg, 0, 0)
      ELSE lookupResult(op, arg, "nil", "", n, m.ref)

\* a GetDevice that takes the first device when the serial number is empty
getDeviceFirst(serialNumber) ==
  LET devices == enumerated(Len(attached))
      arg == <<serialNumber>>
  IN  IF Len(devices) = 0
        THEN lookupResult("GetDevice", arg, "ErrNoDeviceFound", "", 0, 0)
      ELSE IF serialNumber = "" THEN deviceAt("GetDevice", arg, devices[1])
      ELSE IF \E k \in 1..Len(devices) : attached[devices[k]].serial = serialNumber
        THEN deviceAt("GetDevice", arg,
                      devices[CHOOSE k \in 1..Len(devices) :
                                /\ attached[devices[k]].serial = serialNumber
                                /\ \A j \in 1..(k - 1) :
                                     attached[devices[j]].serial # serialNumber])
      ELSE lookupResult("GetDevice", arg, "ErrNoDeviceFound", "", 0, 0)

getDevice(serialNumber) ==
  LET devices == enumerated(Len(attached))
      arg == <<serialNumber>>
  IN  IF Len(devices) = 0
        THEN lookupResult("GetDevice", arg, "ErrNoDeviceFound", "", 0, 0)
      ELSE IF serialNumber = ""
        THEN IF Len(devices) = 1 THEN deviceAt("GetDevice", arg, devices[1])
             ELSE lookupResult("GetDevice", arg, "ErrMoreThanOneDeviceFound", "", 0, 0)
      ELSE IF \E k \in 1..Len(devices) : attached[devices[k]].serial = serialNumber
        THEN deviceAt("GetDevice", arg,
                      devices[CHOOSE k \in 1..Len(devices) :
                                /\ attached[devices[k]].serial = serialNumber
                                /\ \A j \in 1..(k - 1) :
                                     attached[devices[j]].serial # serialNumber])
      ELSE lookupResult("GetDevice", arg, "ErrNoDeviceFound", "", 0, 0)

\* a device is plugged in
Attach(dev) ==
  /\ Len(attached) < MaxAttached
  /\ attached' = Append(attached, dev)
  /\ UNCHANGED <<pid, send, reg, dialStates, query, imgCall, lookup, walk, touchStripInput,
                 dialInputs, errCh, open, devOpen, listen, closedChans, nextChan, inputs,
                 keyStates, now, lpc, lret, cpc, cio, tasks, lastCall, nReports, nOpens,
                 lastReport, events>>

\* a call of getModel with a device of this vendor and product id
GetModel(vendor, product) ==
  /\ lookup' = LET m == getModel(vendor, product)
               IN  lookupResult("getModel", <<vendor, product>>, m.err, m.msg, 0, m.ref)
  /\ UNCHANGED <<pid, send, reg, dialStates, query, imgCall, attached, walk, touchStripInput,
                 dialInputs, errCh, open, devOpen, listen, closedChans, nextChan, inputs,
                 keyStates, now, lpc, lret, cpc, cio, tasks, lastCall, nReports, nOpens,
                 lastReport, events>>

GetDevice(serialNumber) ==
  /\ lookup' = getDevice(serialNumber)
  /\ UNCHANGED <<pid, send, reg, dialStates, query, imgCall, attached, walk, touchStripInput,
                 dialInputs, errCh, open, devOpen, listen, closedChans, nextChan, inputs,
                 keyStates, now, lpc, lret, cpc, cio, tasks, lastCall, nReports, nOpens,
                 lastReport, events>>

(***************************************************************************)
(* The capability queries of a Device (streamdeck.go), called on the       *)
(* Device the last GetDevice returned: d.dev is attached[lookup.dev] and   *)
(* d.model is models[lookup.model].                                        *)
(***************************************************************************)
queryResult(op, dev, ret) == [op |-> op, dev |-> dev, ret |-> ret]

noQuery == queryResult("none", 0, 0)

\* GetDevice has returned a Device
hasDevice == lookup.op = "GetDevice" /\ lookup.err = "nil"

GetModelID ==
  /\ hasDevice
  /\ query' = queryResult("GetModelID", lookup.dev, models[lookup.model].id)
  /\ UNCHANGED <<pid, send, reg, dialStates, imgCall, lookup, attached, walk, touchStripInput,
                 dialInputs, errCh, open, devOpen, listen, closedChans, nextChan, inputs,
                 keyStates, now, lpc, lret, cpc, cio, tasks, lastCall, nReports, nOpens,
                 lastReport, events>>

GetKeyCount ==
  /\ hasDevice
  /\ query' = queryResult("GetKeyCount", lookup.dev, models[lookup.model].keyCount)
  /\ UNCHANGED <<pid, send, reg, dialStates, imgCall, lookup, attached, walk, touchStripInput,
                 dialInputs, errCh, open, devOpen, listen, closedChans, nextChan, inputs,
                 keyStates, now, lpc, lret, cpc, cio, tasks, lastCall, nReports, nOpens,
                 lastReport, events>>

GetTouchPointCount ==
  /\ hasDevice
  /\ query' = queryResult("GetTouchPointCount", lookup.dev,
                          models[lookup.model].touchPointCount)
  /\ UNCHANGED <<pid, send, reg, dialStates, imgCall, lookup, attached, walk, touchStripInput,
                 dialInputs, errCh, open, devOpen, listen, closedChans, nextChan, inputs,
                 keyStates, now, lpc, lret, cpc, cio, tasks, lastCall, nReports, nOpens,
                 lastReport, events>>

\* a GetDialCount that reads the count of the touch points
GetDialCountOfTouchPoints ==
  /\ hasDevice
  /\ query' = queryResult("GetDialCount", lookup.dev, models[lookup.model].touchPointCount)
  /\ UNCHANGED <<pid, send, reg, dialStates, imgCall, lookup, attached, walk, touchStripInput,
                 dialInputs, errCh, open, devOpen, listen, closedChans, nextChan, inputs,
                 keyStates, now, lpc, lret, cpc, cio, tasks, lastCall, nReports, nOpens,
                 lastReport, events>>

GetDialCount ==
  /\ hasDevice
  /\ query' = queryResult("GetDialCount", lookup.dev, models[lookup.model].dialCount)
  /\ UNCHANGED <<pid, send, reg, dialStates, imgCall, lookup, attached, walk, touchStripInput,
                 dialInputs, errCh, open, devOpen, listen, closedChans, nextChan, inputs,
                 keyStates, now, lpc, lret, cpc, cio, tasks, lastCall, nReports, nOpens,
                 lastReport, events>>

\* infoBarImageSend != nil
GetInfoBarSupported ==
  /\ hasDevice
  /\ query' = queryResult("GetInfoBarSupported", lookup.dev, models[lookup.model].infoBar)
  /\ UNCHANGED <<pid, send, reg, dialStates, imgCall, lookup, attached, walk, touchStripInput,
                 dialInputs, errCh, open, devOpen, listen, closedChans, nextChan, inputs,
                 keyStates, now, lpc, lret, cpc, cio, tasks, lastCall, nReports, nOpens,
                 lastReport, events>>

\* touchStripImageSend != nil
GetTouchStripSupported ==
  /\ hasDevice
  /\ query' = queryResult("GetTouchStripSupported", lookup.dev,
                          models[lookup.model].touchStrip)
  /\ UNCHANGED <<pid, send, reg, dialStates, imgCall, lookup, attached, walk, touchStripInput,
                 dialInputs, errCh, open, devOpen, listen, closedChans, nextChan, inputs,
                 keyStates, now, lpc, lret, cpc, cio, tasks, lastCall, nReports, nOpens,
                 lastReport, events>>

(***************************************************************************)
(* float64 arithmetic, as getScaledRect uses it (image.go): the quotient   *)
(* of two ints, the quotient and the product of an int and a float64, the  *)
(* comparison of two float64 and the conversion of a float64 to int.  A    *)
(* float64 is m * 2^e with 2^52 <= m < 2^53; m is kept in limbs, least     *)
(* significant first, and every result is rounded to the nearest float64,  *)
(* ties to the even one.                                                   *)
(***************************************************************************)
MantBits == 53

LimbBits == 14

LimbBase == 2^LimbBits

NumLimbs == 5

\* n < LimbBase^2 in limbs
BigOfInt(n) ==
  [k \in 1..NumLimbs |->
     IF k = 1 THEN n % LimbBase ELSE IF k = 2 THEN n \div LimbBase ELSE 0]

\* 2^n in limbs
BigPow2(n) ==
  [k \in 1..NumLimbs |-> IF k = (n \div LimbBits) + 1 THEN 2^(n % LimbBits) ELSE 0]

BigIsZero(a) == \A k \in 1..NumLimbs : a[k] = 0

BigGeq(a, b) ==
  LET diff == {k \in 1..NumLimbs : a[k] # b[k]}
  IN  \/ diff = {}
      \/ LET top == CHOOSE k \in diff : \A j \in diff : j <= k
         IN  a[top] > b[top]

\* the limbs k.. of a * d + carry, for d < LimbBase
RECURSIVE bigMulAddFrom(_, _, _, _)
bigMulAddFrom(a, d, carry, k) ==
  IF k > NumLimbs THEN <<>>
  ELSE LET t == a[k] * d + carry
       IN  <<t % LimbBase>> \o bigMulAddFrom(a, d, t \div LimbBase, k + 1)

BigMulAdd(a, d, c) == bigMulAddFrom(a, d, c, 1)

\* the limbs k.. of a - b - borrow, for a >= b
RECURSIVE bigSubFrom(_, _, _, _)
bigSubFrom(a, b, borrow, k) ==
  IF k > NumLimbs THEN <<>>
  ELSE LET t == a[k] - b[k] - borrow
       IN  IF t < 0 THEN <<t + LimbBase>> \o bigSubFrom(a, b, 1, k + 1)
           ELSE <<t>> \o bigSubFrom(a, b, 0, k + 1)

BigSub(a, b) == bigSubFrom(a, b, 0, 1)

\* a div 2
BigHalve(a) ==
  [k \in 1..NumLimbs |->
     ((IF k < NumLimbs THEN a[k + 1] % 2 ELSE 0) * LimbBase + a[k]) \div 2]

\* the bit of a that is worth 2^p
BigBit(a, p) ==
  IF p >= NumLimbs * LimbBits THEN 0
  ELSE (a[(p \div LimbBits) + 1] \div 2^(p % LimbBits)) % 2

\* the n bits of a from the one worth 2^p upwards, as an int
RECURSIVE BigBitsToInt(_, _, _)
BigBitsToInt(a, p, n) ==
  IF n = 1 THEN BigBit(a, p)
  ELSE LET h == n \div 2
       IN  BigBitsToInt(a, p, h) + 2^h * BigBitsToInt(a, p + h, n - h)

\* a * 2^n
RECURSIVE BigShiftLeft(_, _)
BigShiftLeft(a, n) ==
  IF n < LimbBits THEN BigMulAdd(a, 2^n, 0)
  ELSE BigShiftLeft(BigMulAdd(a, 2^(LimbBits - 1), 0), n - (LimbBits - 1))

float(m, e) == [m |-> m, e |-> e]

\* p * 2^e, plus something smaller than 2^e when sticky, rounded to a
\* float64; p >= 2^52
RECURSIVE roundFloat(_, _, _)
roundFloat(p, e, sticky) ==
  IF BigGeq(p, BigPow2(MantBits + 1))
    THEN roundFloat(BigHalve(p), e + 1, sticky \/ p[1] % 2 = 1)
  ELSE IF BigGeq(p, BigPow2(MantBits))
    THEN LET m == BigHalve(p)
             up == p[1] % 2 = 1 /\ (sticky \/ m[1] % 2 = 1)
             mm == IF up THEN BigMulAdd(m, 1, 1) ELSE m
         IN  IF BigGeq(mm, BigPow2(MantBits)) THEN float(BigHalve(mm), e + 2)
             ELSE float(mm, e + 1)
  ELSE float(p, e)

\* one more binary digit of a quotient by b: q the digits so far, r the
\* remainder
intDivStep(st, b) ==
  IF 2 * st.r >= b THEN [q |-> BigMulAdd(st.q, 2, 1), r |-> 2 * st.r - b]
  ELSE [q |-> BigMulAdd(st.q, 2, 0), r |-> 2 * st.r]

\* n more digits: the first half of them, then the others (a remainder is
\* never negative)
RECURSIVE intDivSteps(_, _, _)
intDivSteps(st, b, n) ==
  IF n = 1 THEN intDivStep(st, b)
  ELSE LET half == intDivSteps(st, b, n \div 2)
       IN  IF half.r >= 0 THEN intDivSteps(half, b, n - n \div 2) ELSE half

\* a and b scaled by powers of two to b <= a < 2b, and e with
\* a / b = (scaled a / scaled b) * 2^e
RECURSIVE intDivScale(_, _, _)
intDivScale(a, b, e) ==
  IF a < b THEN intDivScale(2 * a, b, e - 1)
  ELSE IF a >= 2 * b THEN intDivScale(a, 2 * b, e + 1)
  ELSE [a |-> a, b |-> b, e |-> e]

\* float64(a) / float64(b), for ints a, b > 0
floatDivInts(a, b) ==
  LET s == intDivScale(a, b, 0)
      d == intDivSteps([q |-> BigOfInt(1), r |-> s.a - s.b], s.b, MantBits)
  IN  IF d.r = 0 THEN roundFloat(d.q, s.e - MantBits, FALSE)
      ELSE roundFloat(d.q, s.e - MantBits, TRUE)

\* float64(d) * x, for an int d > 0 below LimbBase
floatMulInt(d, x) == roundFloat(BigMulAdd(x.m, d, 0), x.e, FALSE)

\* one more binary digit of a quotient by m: q the digits so far, r the
\* remainder
bigDivStep(st, m) ==
  LET rr == BigMulAdd(st.r, 2, 0)
  IN  IF BigGeq(rr, m) THEN [q |-> BigMulAdd(st.q, 2, 1), r |-> BigSub(rr, m)]
      ELSE [q |-> BigMulAdd(st.q, 2, 0), r |-> rr]

\* n more digits: the first half of them, then the others (a limb is never
\* negative)
RECURSIVE bigDivSteps(_, _, _)
bigDivSteps(st, m, n) ==
  IF n = 1 THEN bigDivStep(st, m)
  ELSE LET half == bigDivSteps(st, m, n \div 2)
       IN  IF half.r[1] >= 0 THEN bigDivSteps(half, m, n - n \div 2) ELSE half

\* the number of binary digits of d > 0
bitLen(d) == CHOOSE n \in 1..(2 * LimbBits) : 2^(n - 1) <= d /\ d < 2^n

\* float64(d) / x, for an int d > 0 below LimbBase: d is scaled by a power
\* of two to x.m <= scaled d < 2 * x.m
floatDivIntBy(d, x) ==
  LET low == BigShiftLeft(BigOfInt(d), MantBits - bitLen(d))
      s == IF BigGeq(low, x.m) THEN MantBits - bitLen(d) ELSE MantBits - bitLen(d) + 1
      n == BigShiftLeft(BigOfInt(d), s)
      first == [q |-> BigOfInt(1), r |-> BigSub(n, x.m)]
      q == IF first.r[1] >= 0 THEN bigDivSteps(first, x.m, MantBits) ELSE first
  IN  IF BigIsZero(q.r) THEN roundFloat(q.q, 0 - s - MantBits - x.e, FALSE)
      ELSE roundFloat(q.q, 0 - s - MantBits - x.e, TRUE)

\* x > y
floatGt(x, y) == x.e > y.e \/ (x.e = y.e /\ ~BigGeq(y.m, x.m))

\* int(x), for x below LimbBase^2
floatToInt(x) ==
  IF x.e >= 0 THEN x.m[1] * 2^x.e
  ELSE BigBitsToInt(x.m, 0 - x.e, 2 * LimbBits)

(***************************************************************************)
(* getScaledRect (image.go).                                               *)
(***************************************************************************)
Dx(r) == r.maxX - r.minX

Dy(r) == r.maxY - r.minY

\* image.Rect: the rectangle with the coordinates in order
imageRect(x0, y0, x1, y1) ==
  Rect(IF x0 > x1 THEN x1 ELSE x0, IF y0 > y1 THEN y1 ELSE y0,
       IF x0 > x1 THEN x0 ELSE x1, IF y0 > y1 THEN y0 ELSE y1)

\* the quotient of Go's integer division, which truncates
quo(a, b) == IF a >= 0 THEN a \div b ELSE 0 - ((0 - a) \div b)

\* for src and dst that are not empty
getScaledRect(src, dst) ==
  LET srcRatio == floatDivInts(Dx(src), Dy(src))
      dstRatio == floatDivInts(Dx(dst), Dy(dst))
  IN  IF floatGt(srcRatio, dstRatio)
        THEN LET newHeight == floatToInt(floatDivIntBy(Dx(dst), srcRatio))
                 y0 == dst.minY + quo(Dy(dst) - newHeight, 2)
             IN  imageRect(dst.minX, y0, dst.maxX, y0 + newHeight)
        ELSE LET newWidth == floatToInt(floatMulInt(Dy(dst), srcRatio))
                 x0 == dst.minX + quo(Dx(dst) - newWidth, 2)
             IN  imageRect(x0, dst.minY, x0 + newWidth, dst.maxY)

\* what a call of a function of image.go was given and what it returned
imgCallResult(fn, args, ret) ==
  [fn |-> fn, args |-> args, pc |-> "returned", ret |-> ret]

noImgCall == imgCallResult("none", <<>>, <<>>)

\* a call that has not returned yet
imgCallOf(fn, args) == [fn |-> fn, args |-> args, pc |-> "running", ret |-> <<>>]

GetScaledRect ==
  /\ imgCall.fn = "getScaledRect"
  /\ imgCall.pc = "running"
  /\ imgCall' = imgCallResult(imgCall.fn, imgCall.args,
                              getScaledRect(imgCall.args[1], imgCall.args[2]))
  /\ UNCHANGED <<pid, send, reg, dialStates, query, lookup, attached, walk, touchStripInput,
                 dialInputs, errCh, open, devOpen, listen, closedChans, nextChan, inputs,
                 keyStates, now, lpc, lret, cpc, cio, tasks, lastCall, nReports, nOpens,
                 lastReport, events>>

(***************************************************************************)
(* genImage (image.go).  An image is nil, or has bounds and pixels: each   *)
(* pixel of its own, named by its place, or all of one colour.  The bytes  *)
(* genImage returns are named by the format and the pixels encoded.        *)
(***************************************************************************)
imageFormatBMP == 0

imageFormatJPEG == 1

imageTransformFlipVertical == 1

imageTransformFlipHorizontal == 2

imageTransformRotate90 == 4

\* transform&bit == bit
hasTransform(transform, bit) == (transform \div bit) % 2 = 1

nilImage == [nil |-> TRUE, bounds |-> ZR, uniform |-> FALSE]

newImage(bounds, uniform) == [nil |-> FALSE, bounds |-> bounds, uniform |-> uniform]

\* a colour: that of the pixel (x, y) of the image, the one colour of an
\* image that has one, a blend of pixels, or none
colour(kind, x, y) == [kind |-> kind, x |-> x, y |-> y]

transparent == colour("transparent", 0, 0)

\* img.At(x, y)
imageAt(img, x, y) == IF img.uniform THEN colour("uniform", 0, 0) ELSE colour("pixel", x, y)

\* the points of a rectangle
rectPoints(r) == (r.minX..(r.maxX - 1)) \X (r.minY..(r.maxY - 1))

inRect(x, y, r) == r.minX <= x /\ x < r.maxX /\ r.minY <= y /\ y < r.maxY

\* scaled.At(x, y) after the drawing: draw.Copy puts the image at the point
\* (0, 0) when it has the size of rect; otherwise draw.BiLinear.Scale fills
\* getScaledRect(imgBounds, rect), with the colour of the image when it has
\* one colour and with a blend of its pixels when it has not; what is not
\* drawn stays transparent.  Into an empty rect nothing is drawn.
scaledAt(img, rect, x, y) ==
  IF RectEmpty(rect) THEN transparent
  ELSE IF Dx(img.bounds) = Dx(rect) /\ Dy(img.bounds) = Dy(rect)
    THEN IF inRect(x, y, Rect(0, 0, Dx(img.bounds), Dy(img.bounds)))
           THEN imageAt(img, x + img.bounds.minX, y + img.bounds.minY)
           ELSE transparent
  ELSE IF inRect(x, y, getScaledRect(img.bounds, rect))
    THEN IF img.uniform THEN colour("uniform", 0, 0) ELSE colour("blend", 0, 0)
  ELSE transparent

\* a rotation the other way round
transformPointClockwise(x, y, w, h, transform) ==
  LET xf == IF hasTransform(transform, imageTransformFlipHorizontal) THEN w - 1 - x ELSE x
      yf == IF hasTransform(transform, imageTransformFlipVertical) THEN h - 1 - y ELSE y
  IN  IF hasTransform(transform, imageTransformRotate90) THEN <<w - 1 - yf, xf>>
      ELSE <<xf, yf>>

\* (xd, yd) for (x, y) on a canvas of w by h
transformPoint(x, y, w, h, transform) ==
  LET xf == IF hasTransform(transform, imageTransformFlipHorizontal) THEN w - 1 - x ELSE x
      yf == IF hasTransform(transform, imageTransformFlipVertical) THEN h - 1 - y ELSE y
  IN  IF hasTransform(transform, imageTransformRotate90) THEN <<yf, w - 1 - xf>>
      ELSE <<xf, yf>>

\* c as final.Set is given it: for BMP the colour is made opaque
finalColour(c, ifmt) == [c |-> c, opaque |-> ifmt = imageFormatBMP]

\* final after the loops: final.Set ignores a point outside rect, and a
\* point no pixel is sent to stays transparent
finalImage(img, rect, ifmt, transform) ==
  [p \in rectPoints(rect) |->
     LET from == {q \in rectPoints(rect) :
                    transformPoint(q[1], q[2], Dx(rect), Dy(rect), transform) = p}
     IN  IF from = {} THEN finalColour(transparent, imageFormatJPEG)
         ELSE LET q == CHOOSE q \in from : TRUE
              IN  finalColour(scaledAt(img, rect, q[1], q[2]), ifmt)]

genImageResult(err, msg, data) == [err |-> err, msg |-> msg, data |-> data]

\* the check of the rectangle is made for a pixel, in the loops: it is made
\* when rect has a pixel
genImage(img, rect, ifmt, transform) ==
  IF img.nil THEN genImageResult("ErrImageInvalid", "", <<>>)
  ELSE IF /\ rectPoints(rect) # {}
          /\ hasTransform(transform, imageTransformRotate90)
          /\ Dx(rect) # Dy(rect)
    THEN genImageResult("ErrImageInvalid", "cannot rotate non-square canvas", <<>>)
  ELSE IF ifmt \notin {imageFormatBMP, imageFormatJPEG}
    THEN genImageResult("error", "invalid key image format", <<>>)
  ELSE genImageResult("nil", "", finalImage(img, rect, ifmt, transform))

GenImage ==
  /\ imgCall.fn = "genImage"
  /\ imgCall.pc = "running"
  /\ imgCall' = imgCallResult(imgCall.fn, imgCall.args,
                              genImage(imgCall.args[1], imgCall.args[2], imgCall.args[3],
                                       imgCall.args[4]))
  /\ UNCHANGED <<pid, send, reg, dialStates, query, lookup, attached, walk, touchStripInput,
                 dialInputs, errCh, open, devOpen, listen, closedChans, nextChan, inputs,
                 keyStates, now, lpc, lret, cpc, cio, tasks, lastCall, nReports, nOpens,
                 lastReport, events>>

(***************************************************************************)
(* keyImageSend (models.go) and imageSend (image.go), byte by byte.        *)
(***************************************************************************)
KEY_1 == 1

\* hdr as the keyImageSend of the model makes it for the key
keyImageHdr(key) ==
  IF dmodel.id = "mini"
    THEN [Zeros(dmodel.hdrLen) EXCEPT ![1] = 1, ![5] = (1 + (key - KEY_1)) % Byte]
    ELSE [Zeros(dmodel.hdrLen) EXCEPT ![1] = 7, ![2] = (key - KEY_1) % Byte]

\* the callback with the two bytes of the size in the other order
keyImageUpdateHighFirst(hdr, page, last, size) ==
  IF dmodel.id = "mini" THEN [hdr EXCEPT ![2] = page, ![4] = last]
  ELSE [hdr EXCEPT ![3] = last, ![4] = (size \div Byte) % Byte, ![5] = size % Byte,
                   ![6] = page]

\* the callback keyImageSend gives to imageSend: hdr after the call
keyImageUpdate(hdr, page, last, size) ==
  IF dmodel.id = "mini" THEN [hdr EXCEPT ![2] = page, ![4] = last]
  ELSE [hdr EXCEPT ![3] = last, ![4] = size % Byte, ![5] = (size \div Byte) % Byte,
                   ![6] = page]

\* the payload left as append(hdr, to_send...) made it
padReportNot(payload, cap) == payload

\* append(payload, make([]byte, GetOutputReportLength()-uint16(len(payload)))...)
padReport(payload, cap) == payload \o Zeros((cap - Len(payload)) % Uint16)

\* what imageSend returned and what it did, in order: the calls of the
\* callback and the output reports written
sendResult(err, log) == [err |-> err, log |-> log]

\* the loop of imageSend from the locals start and page on; cap is what
\* GetOutputReportLength returns, okN the number of SetOutputReport calls
\* that succeed before one fails
RECURSIVE imageSendFrom(_, _, _, _, _, _, _)
imageSendFrom(hdr, imgData, cap, start, page, okN, log) ==
  LET step == (cap - Len(hdr)) % Uint16
      end0 == (start + step) % Uint16
      l    == Len(imgData) % Uint16
      end  == IF end0 >= l THEN l ELSE end0
      last == IF end0 >= l THEN 1 ELSE 0
  IN  IF start > end THEN sendResult("panic", log)
      ELSE LET to_send == Slice(imgData, start, end)
               hdr2    == keyImageUpdate(hdr, page, last, Len(to_send) % Uint16)
               log2    == Append(log, [op |-> "updateCb", page |-> page, last |-> last,
                                       size |-> Len(to_send) % Uint16])
               log3    == Append(log2, [op |-> "SetOutputReport", id |-> 2,
                                        payload |-> padReport(hdr2 \o to_send, cap)])
           IN  IF okN = 0 THEN sendResult("io", log2)
               ELSE IF last = 1 THEN sendResult("nil", log3)
               ELSE imageSendFrom(hdr2, imgData, cap, (start + step) % Uint16,
                                  (page + 1) % Byte, okN - 1, log3)

\* model.keyImageSend(dev, key, imgData)
keyImageSend(key, imgData, cap, okN) ==
  imageSendFrom(keyImageHdr(key), imgData, cap, 0, 0, okN, <<>>)

KeyImageSend ==
  /\ imgCall.fn = "keyImageSend"
  /\ imgCall.pc = "running"
  /\ imgCall' = imgCallResult(imgCall.fn, imgCall.args,
                              keyImageSend(imgCall.args[1], imgCall.args[2],
                                           imgCall.args[3], imgCall.args[4]))
  /\ UNCHANGED <<pid, send, reg, dialStates, query, lookup, attached, walk, touchStripInput,
                 dialInputs, errCh, open, devOpen, listen, closedChans, nextChan, inputs,
                 keyStates, now, lpc, lret, cpc, cio, tasks, lastCall, nReports, nOpens,
                 lastReport, events>>

(***************************************************************************)
(* Initial states.                                                         *)
(***************************************************************************)
\* a Device as Enumerate / GetDevice return it: closed, nothing allocated
Init ==
  /\ pid \in DevicePids
  /\ open = FALSE
  /\ devOpen = FALSE
  /\ listen = 0
  /\ closedChans = {}
  /\ nextChan = 1
  /\ inputs = <<>>
  /\ keyStates = <<>>
  /\ now = 1
  /\ lpc = "none"
  /\ lret = "none"
  /\ cpc = "none"
  /\ cio = <<>>
  /\ tasks = <<>>
  /\ lastCall = [op |-> "none", err |-> "nil", io |-> <<>>]
  /\ nReports = 0
  /\ nOpens = 0
  /\ reg = noReg
  /\ dialStates = <<>>
  /\ query = noQuery
  /\ imgCall = noImgCall
  /\ lookup = noLookup
  /\ attached = <<usbDevice(elgatoVendorID, pid, "A")>>
  /\ walk = noWalk
  /\ touchStripInput = noTouchStripInput
  /\ dialInputs = <<>>
  /\ errCh = noErrCh
  /\ lastReport = Zeros(NumSlots)
  /\ events = <<>>
  /\ send = noSend

\* the models whose input engine is explored: keys only, keys and touch points
InputPids == {99, 154}

\* the same Device after a successful Open (streamdeck.go, Open)
InitInput ==
  /\ pid \in InputPids
  /\ open = TRUE
  /\ devOpen = TRUE
  /\ listen = 1
  /\ closedChans = {}
  /\ nextChan = 2
  /\ inputs = <<>>
  /\ keyStates = <<>>
  /\ now = 1
  /\ lpc = "none"
  /\ lret = "none"
  /\ cpc = "none"
  /\ cio = <<>>
  /\ tasks = <<>>
  /\ lastCall = [op |-> "Open", err |-> "nil", io |-> << <<"devOpen", 1, "">> >>]
  /\ nReports = 0
  /\ nOpens = 1
  /\ reg = noReg
  /\ dialStates = <<>>
  /\ query = noQuery
  /\ imgCall = noImgCall
  /\ lookup = noLookup
  /\ attached = <<usbDevice(elgatoVendorID, pid, "A")>>
  /\ walk = noWalk
  /\ touchStripInput = noTouchStripInput
  /\ dialInputs = <<>>
  /\ errCh = noErrCh
  /\ lastReport = Zeros(NumSlots)
  /\ events = <<>>
  /\ send = noSend

\* a panic of any goroutine ends the process
Crashed == lpc = "panic"

(***************************************************************************)
(* Handler registration (streamdeck.go, AddKeyHandler and                  *)
(* AddTouchPointHandler; input.go, addHandler).                            *)
(***************************************************************************)
\* the slot table after the lazy allocation in Add*Handler
ensureInputs ==
  IF inputs = <<>> THEN newInputs(dmodel.keyCount, dmodel.touchPointCount) ELSE inputs

\* an addHandler that keeps the last handler only
addHandlerReplace(tbl, i, fn) ==
  [tbl EXCEPT ![i].handlers = <<fn>>]

\* Key.addHandler / TouchPoint.addHandler on slot i of table tbl
addHandler(tbl, i, fn) ==
  [tbl EXCEPT ![i].handlers = Append(tbl[i].handlers, fn)]

AddKeyHandler(key, fn) ==
  /\ validateKey(key) = "nil" => Len(ensureInputs[KeySlot(key)].handlers) < MaxHandlers
  /\ LET err == IF validateKey(key) # "nil" THEN validateKey(key)
                ELSE IF fn = "nil" THEN "ErrKeyHandlerInvalid"
                ELSE "nil"
     IN  /\ lastCall' = [op |-> "AddKeyHandler", err |-> err, io |-> <<>>]
         /\ inputs' = IF err = "nil" THEN addHandler(ensureInputs, KeySlot(key), fn)
                      ELSE inputs
  /\ UNCHANGED <<pid, send, reg, dialStates, query, imgCall, lookup, attached, walk,
                 touchStripInput, dialInputs, errCh, open, devOpen, listen, closedChans,
                 nextChan, keyStates, now, lpc, lret, cpc, cio, tasks, nReports, nOpens,
                 lastReport, events>>

AddTouchPointHandler(tp, fn) ==
  /\ validateTouchPoint(tp) = "nil" =>
        Len(ensureInputs[TouchPointSlot(tp)].handlers) < MaxHandlers
  /\ LET err == IF validateTouchPoint(tp) # "nil" THEN validateTouchPoint(tp)
                ELSE IF fn = "nil" THEN "ErrTouchPointHandlerInvalid"
                ELSE "nil"
     IN  /\ lastCall' = [op |-> "AddTouchPointHandler", err |-> err, io |-> <<>>]
         /\ inputs' = IF err = "nil"
                        THEN addHandler(ensureInputs, TouchPointSlot(tp), fn)
                        ELSE inputs
  /\ UNCHANGED <<pid, send, reg, dialStates, query, imgCall, lookup, attached, walk,
                 touchStripInput, dialInputs, errCh, open, devOpen, listen, closedChans,
                 nextChan, keyStates, now, lpc, lret, cpc, cio, tasks, nReports, nOpens,
                 lastReport, events>>

(***************************************************************************)
(* Device.AddKeyHandler statement by statement, as it runs when other      *)
(* goroutines register handlers or Listen polls at the same time: nothing  *)
(* in it is guarded by a lock but the append of Key.addHandler.            *)
(***************************************************************************)
\* the call: validateKey and the test of fn
RegCall(t, key, fn) ==
  /\ reg[t].pc = "idle"
  /\ LET err == IF validateKey(key) # "nil" THEN validateKey(key)
                ELSE IF fn = "nil" THEN "ErrKeyHandlerInvalid"
                ELSE "nil"
     IN  reg' = [reg EXCEPT ![t] = IF err = "nil"
                                     THEN [pc |-> "check", key |-> key, fn |-> fn,
                                           err |-> "none"]
                                   ELSE [pc |-> "returned", key |-> key, fn |-> fn,
                                         err |-> err]]
  /\ UNCHANGED <<pid, send, dialStates, query, imgCall, lookup, attached, walk,
                 touchStripInput, dialInputs, errCh, open, devOpen, listen, closedChans,
                 nextChan, keyStates, now, lpc, lret, cpc, cio, tasks, lastCall, nReports,
                 nOpens, lastReport, events, inputs>>

\* if d.inputs == nil
RegCheck(t) ==
  /\ reg[t].pc = "check"
  /\ reg' = [reg EXCEPT ![t].pc = IF inputs = <<>> THEN "create" ELSE "add"]
  /\ UNCHANGED <<pid, send, dialStates, query, imgCall, lookup, attached, walk,
                 touchStripInput, dialInputs, errCh, open, devOpen, listen, closedChans,
                 nextChan, keyStates, now, lpc, lret, cpc, cio, tasks, lastCall, nReports,
                 nOpens, lastReport, events, inputs>>

\* d.inputs = newInputs(d, d.model.keyCount, d.model.touchPointCount)
RegCreate(t) ==
  /\ reg[t].pc = "create"
  /\ inputs' = newInputs(dmodel.keyCount, dmodel.touchPointCount)
  /\ reg' = [reg EXCEPT ![t].pc = "add"]
  /\ UNCHANGED <<pid, send, dialStates, query, imgCall, lookup, attached, walk,
                 touchStripInput, dialInputs, errCh, open, devOpen, listen, closedChans,
                 nextChan, keyStates, now, lpc, lret, cpc, cio, tasks, lastCall, nReports,
                 nOpens, lastReport, events>>

\* the loop over d.inputs: in.key.addHandler(fn) on the slot of the key, and
\* return nil
RegAdd(t) ==
  /\ reg[t].pc = "add"
  /\ Len(inputs[KeySlot(reg[t].key)].handlers) < MaxHandlers
  /\ inputs' = addHandler(inputs, KeySlot(reg[t].key), reg[t].fn)
  /\ reg' = [reg EXCEPT ![t].pc = "returned", ![t].err = "nil"]
  /\ UNCHANGED <<pid, send, dialStates, query, imgCall, lookup, attached, walk,
                 touchStripInput, dialInputs, errCh, open, devOpen, listen, closedChans,
                 nextChan, keyStates, now, lpc, lret, cpc, cio, tasks, lastCall, nReports,
                 nOpens, lastReport, events>>

(***************************************************************************)
(* Device.Listen (streamdeck.go).                                          *)
(***************************************************************************)
\* entry: validateOpen, then each snapshot is (re)allocated when its length
\* is not the model's
ListenStart ==
  /\ lpc \in {"none", "returned"}
  /\ IF validateOpen # "nil"
       THEN /\ lpc' = "returned"
            /\ lret' = validateOpen
            /\ UNCHANGED <<keyStates, dialStates>>
       ELSE /\ lpc' = "select"
            /\ lret' = "none"
            /\ keyStates' = IF Len(keyStates) # NumSlots THEN Zeros(NumSlots)
                            ELSE keyStates
            /\ dialStates' = IF Len(dialStates) # dmodel.dialCount
                               THEN Zeros(dmodel.dialCount)
                             ELSE dialStates
  /\ UNCHANGED <<pid, send, reg, query, imgCall, lookup, attached, walk, touchStripInput,
                 dialInputs, errCh, open, devOpen, listen, closedChans, nextChan, inputs,
                 now, cpc, cio, tasks, lastCall, nReports, nOpens, lastReport, events>>

\* whether a receive from channel c can proceed: only a closed channel is
\* ready, a nil channel never is
stopSignalled(c) == c # 0 /\ c \in closedChans

\* a loop that does not look at the stop signal
ListenSelectBlind ==
  /\ lpc = "select"
  /\ lpc' = "nilcheck"
  /\ UNCHANGED <<pid, send, reg, dialStates, query, imgCall, lookup, attached, walk,
                 touchStripInput, dialInputs, errCh, open, devOpen, listen, closedChans,
                 nextChan, inputs, keyStates, now, lret, cpc, cio, tasks, lastCall,
                 nReports, nOpens, lastReport, events>>

\* top of the loop: select { case <-d.listen: return nil; default: ... }
ListenSelect ==
  /\ lpc = "select"
  /\ IF stopSignalled(listen)
       THEN lpc' = "returned" /\ lret' = "nil"
       ELSE lpc' = "nilcheck" /\ UNCHANGED lret
  /\ UNCHANGED <<pid, send, reg, dialStates, query, imgCall, lookup, attached, walk,
                 touchStripInput, dialInputs, errCh, open, devOpen, listen, closedChans,
                 nextChan, inputs, keyStates, now, cpc, cio, tasks, lastCall, nReports,
                 nOpens, lastReport, events>>

\* the default branch: if d.listen == nil { return nil }
ListenNilCheck ==
  /\ lpc = "nilcheck"
  /\ IF listen = 0
       THEN lpc' = "returned" /\ lret' = "nil"
       ELSE lpc' = "read" /\ UNCHANGED lret
  /\ UNCHANGED <<pid, send, reg, dialStates, query, imgCall, lookup, attached, walk,
                 touchStripInput, dialInputs, errCh, open, devOpen, listen, closedChans,
                 nextChan, inputs, keyStates, now, cpc, cio, tasks, lastCall, nReports,
                 nOpens, lastReport, events>>

\* GetInputReport fails: on a closed transport, or by an I/O error
ListenReadFail ==
  /\ lpc = "read"
  /\ lpc' = "returned"
  /\ lret' = IF devOpen THEN "ErrGetInputReportFailed" ELSE "ErrDeviceIsClosed"
  /\ UNCHANGED <<pid, send, reg, dialStates, query, imgCall, lookup, attached, walk,
                 touchStripInput, dialInputs, errCh, open, devOpen, listen, closedChans,
                 nextChan, inputs, keyStates, now, cpc, cio, tasks, lastCall, nReports,
                 nOpens, lastReport, events>>

\* GetInputReport returns report buf with report id id, time.Now() has
\* advanced by dt: an id other than 1 ends Listen with an error; otherwise
\* the events of the report are dispatched and the snapshot it belongs to is
\* replaced
ListenRead(id, buf, dt) ==
  /\ lpc = "read"
  /\ devOpen
  /\ nReports < MaxReports
  /\ nReports' = nReports + 1
  /\ now' = now + dt
  /\ IF id # 1
       THEN /\ lpc' = "returned"
            /\ lret' = "unexpected report id"
            /\ UNCHANGED <<inputs, dialInputs, tasks, closedChans, nextChan, events,
                           lastReport, keyStates, dialStates>>
       ELSE LET st0 == [inputs |-> inputs, dialInputs |-> dialInputs,
                        touchStripInput |-> touchStripInput, tasks |-> tasks,
                        closedChans |-> closedChans, nextChan |-> nextChan,
                        events |-> events, panic |-> FALSE, keyStates |-> keyStates,
                        dialStates |-> dialStates]
                st  == listenReport(buf, now + dt, st0)
            IN  /\ Len(st.tasks) <= MaxTasks
                /\ inputs' = st.inputs
                /\ dialInputs' = st.dialInputs
                /\ tasks' = st.tasks
                /\ closedChans' = st.closedChans
                /\ nextChan' = st.nextChan
                /\ events' = st.events
                /\ keyStates' = st.keyStates
                /\ dialStates' = st.dialStates
                /\ lastReport' = IF isKeyReport(buf) THEN reportStates(buf)
                                 ELSE lastReport
                /\ lpc' = IF st.panic THEN "panic" ELSE "select"
                /\ UNCHANGED lret
  /\ UNCHANGED <<pid, send, reg, query, imgCall, lookup, attached, walk, touchStripInput, errCh,
                 open, devOpen, listen, cpc, cio, lastCall, nOpens>>

(***************************************************************************)
(* input.press and input.release (input.go) called on a slot of the        *)
(* table, at a time the caller read from time.Now().                       *)
(***************************************************************************)
InputPress(i, dt) ==
  /\ ~Crashed
  /\ i <= Len(inputs)
  /\ now <= MaxEdges
  /\ now' = now + dt
  /\ LET st0 == [inputs |-> inputs, tasks |-> tasks, closedChans |-> closedChans,
                 nextChan |-> nextChan, events |-> events, panic |-> FALSE]
         st  == press(st0, i, now + dt)
     IN  /\ Len(st.tasks) <= MaxTasks
         /\ inputs' = st.inputs
         /\ tasks' = st.tasks
         /\ closedChans' = st.closedChans
         /\ nextChan' = st.nextChan
         /\ events' = st.events
  /\ lastCall' = [op |-> "input.press", err |-> "nil", io |-> <<i>>]
  /\ UNCHANGED <<pid, send, reg, dialStates, query, imgCall, lookup, attached, walk,
                 touchStripInput, dialInputs, errCh, open, devOpen, listen, keyStates, lpc,
                 lret, cpc, cio, nReports, nOpens, lastReport>>

InputRelease(i, dt) ==
  /\ ~Crashed
  /\ i <= Len(inputs)
  /\ now <= MaxEdges
  /\ now' = now + dt
  /\ LET st0 == [inputs |-> inputs, tasks |-> tasks, closedChans |-> closedChans,
                 nextChan |-> nextChan, events |-> events, panic |-> FALSE]
         st  == release(st0, i, now + dt)
     IN  /\ inputs' = st.inputs
         /\ tasks' = st.tasks
         /\ closedChans' = st.closedChans
         /\ nextChan' = st.nextChan
         /\ events' = st.events
         /\ lpc' = IF st.panic THEN "panic" ELSE lpc
  /\ lastCall' = [op |-> "input.release", err |-> "nil", io |-> <<i>>]
  /\ UNCHANGED <<pid, send, reg, dialStates, query, imgCall, lookup, attached, walk,
                 touchStripInput, dialInputs, errCh, open, devOpen, listen, keyStates, lret,
                 cpc, cio, nReports, nOpens, lastReport>>

(***************************************************************************)
(* The handler goroutines (input.go, press and WaitForRelease).            *)
(***************************************************************************)
\* a press that calls its handlers instead of starting goroutines: the loop
\* goes on when the handler has returned
awaitedSync(k) == tasks[k].pc # "done"

\* whether the polling loop has to wait for goroutine k before it goes on:
\* never, press starts every handler with a go statement and returns
awaited(k) == FALSE

ListenFree == \A k \in 1..Len(tasks) : ~awaited(k)

\* handlers run one after the other: a goroutine starts when the ones
\* launched before it have returned
runnableSerial(k) == \A j \in 1..(k - 1) : tasks[j].pc = "done"

\* whether goroutine k may be scheduled: always, the goroutines of one press
\* do not wait for each other
runnable(k) == TRUE

\* WaitForRelease, first half of <-k.input.channel: the channel field of the
\* slot is read, without the slot lock
TaskWait(k) ==
  /\ tasks[k].pc = "start"
  /\ tasks[k].kind = "wait"
  /\ runnable(k)
  /\ tasks' = [tasks EXCEPT ![k].pc = "waiting",
                            ![k].ch = inputs[tasks[k].slot].channel]
  /\ UNCHANGED <<pid, send, reg, dialStates, query, imgCall, lookup, attached, walk,
                 touchStripInput, dialInputs, errCh, open, devOpen, listen, closedChans,
                 nextChan, inputs, keyStates, now, lpc, lret, cpc, cio, lastCall, nReports,
                 nOpens, lastReport, events>>

\* WaitForRelease, second half of <-k.input.channel: the receive returns
\* once that channel is closed
TaskWake(k) ==
  /\ tasks[k].pc = "waiting"
  /\ stopSignalled(tasks[k].ch)
  /\ tasks' = [tasks EXCEPT ![k].pc = "woken"]
  /\ UNCHANGED <<pid, send, reg, dialStates, query, imgCall, lookup, attached, walk,
                 touchStripInput, dialInputs, errCh, open, devOpen, listen, closedChans,
                 nextChan, inputs, keyStates, now, lpc, lret, cpc, cio, lastCall, nReports,
                 nOpens, lastReport, events>>

\* WaitForRelease, return k.input.duration: the duration field of the slot
\* is read, without the slot lock, and the handler returns
TaskReturn(k) ==
  /\ tasks[k].pc = "woken"
  /\ tasks' = [tasks EXCEPT ![k].pc = "done",
                            ![k].ret = inputs[tasks[k].slot].duration]
  /\ UNCHANGED <<pid, send, reg, dialStates, query, imgCall, lookup, attached, walk,
                 touchStripInput, dialInputs, errCh, open, devOpen, listen, closedChans,
                 nextChan, inputs, keyStates, now, lpc, lret, cpc, cio, lastCall, nReports,
                 nOpens, lastReport, events>>

\* a handler that returns an error: if err := hnd(...); err != nil
TaskFail(k) ==
  /\ tasks[k].pc = "start"
  /\ tasks[k].kind = "fail"
  /\ runnable(k)
  /\ tasks' = [tasks EXCEPT ![k].pc = "erred"]
  /\ UNCHANGED <<pid, send, reg, dialStates, query, imgCall, lookup, attached, walk,
                 touchStripInput, dialInputs, errCh, open, devOpen, listen, closedChans,
                 nextChan, inputs, keyStates, now, lpc, lret, cpc, cio, lastCall, nReports,
                 nOpens, lastReport, events>>

\* the goroutine delivers the error of its handler, the k-th error of the
\* behaviour, and ends
TaskDeliver(k) ==
  /\ tasks[k].pc = "erred"
  /\ errCh.kind # "nil" => selectBranch(errCh) # "block"
  /\ errCh' = deliver(errCh, k)
  /\ tasks' = [tasks EXCEPT ![k].pc = "done"]
  /\ UNCHANGED <<pid, send, reg, dialStates, query, imgCall, lookup, attached, walk,
                 touchStripInput, dialInputs, open, devOpen, listen, closedChans, nextChan,
                 inputs, keyStates, now, lpc, lret, cpc, cio, lastCall, nReports, nOpens,
                 lastReport, events>>

\* the caller's goroutine receives from the error channel: it takes the
\* oldest buffered error, or blocks until one is sent
ErrReceive ==
  /\ errCh.kind = "chan"
  /\ errCh.recv = "idle"
  /\ errCh' = IF errCh.buf # <<>>
                THEN [errCh EXCEPT !.got = Append(errCh.got, Head(errCh.buf)),
                                   !.buf = Tail(errCh.buf)]
                ELSE [errCh EXCEPT !.recv = "waiting"]
  /\ UNCHANGED <<pid, send, reg, dialStates, query, imgCall, lookup, attached, walk,
                 touchStripInput, dialInputs, open, devOpen, listen, closedChans, nextChan,
                 inputs, keyStates, now, lpc, lret, cpc, cio, tasks, lastCall, nReports,
                 nOpens, lastReport, events>>

(***************************************************************************)
(* Device.Close (streamdeck.go) and closeDisplays (image.go).              *)
(***************************************************************************)
\* a closeDisplays that walks the keys from the last to the first
closeDisplaysDescending ==
  [k \in 1..dmodel.keyCount |-> <<"keyImage", dmodel.keyCount + 1 - k, "black">>]
  \o [j \in 1..dmodel.touchPointCount |-> <<"touchPointColor", j, "black">>]
  \o (IF dmodel.infoBar THEN << <<"infoBarImage", 0, "black">> >> ELSE <<>>)
  \o (IF dmodel.touchStrip THEN << <<"touchStripImage", 0, "black">> >> ELSE <<>>)

\* the display writes of closeDisplays, in order: every key, every touch
\* point, the info bar and the touch strip when the model has them
closeDisplays ==
  [k \in 1..dmodel.keyCount |-> <<"keyImage", k, "black">>]
  \o [j \in 1..dmodel.touchPointCount |-> <<"touchPointColor", j, "black">>]
  \o (IF dmodel.infoBar THEN << <<"infoBarImage", 0, "black">> >> ELSE <<>>)
  \o (IF dmodel.touchStrip THEN << <<"touchStripImage", 0, "black">> >> ELSE <<>>)

\* a Close that gives the device up when a display cannot be cleared: it
\* returns the error and marks the Device closed
CloseStartGivesUp(failAt) ==
  /\ cpc = "none"
  /\ IF validateOpen # "nil"
       THEN /\ lastCall' = [op |-> "Close", err |-> validateOpen, io |-> <<>>]
            /\ UNCHANGED <<cpc, cio, open>>
       ELSE IF failAt # 0
         THEN /\ lastCall' = [op |-> "Close", err |-> "ErrSetOutputReportFailed",
                              io |-> SubSeq(closeDisplays, 1, failAt)]
              /\ open' = FALSE
              /\ UNCHANGED <<cpc, cio>>
         ELSE /\ cio' = closeDisplays
              /\ cpc' = "signal"
              /\ UNCHANGED <<lastCall, open>>
  /\ UNCHANGED <<pid, send, reg, dialStates, query, imgCall, lookup, attached, walk,
                 touchStripInput, dialInputs, errCh, devOpen, listen, closedChans,
                 nextChan, inputs, keyStates, now, lpc, lret, tasks, nReports, nOpens,
                 lastReport, events>>

\* Close up to the end of closeDisplays; write number failAt fails (0: none)
CloseStart(failAt) ==
  /\ cpc = "none"
  /\ IF validateOpen # "nil"
       THEN /\ lastCall' = [op |-> "Close", err |-> validateOpen, io |-> <<>>]
            /\ UNCHANGED <<cpc, cio>>
       ELSE IF failAt # 0
         THEN /\ lastCall' = [op |-> "Close", err |-> "ErrSetOutputReportFailed",
                              io |-> SubSeq(closeDisplays, 1, failAt)]
              /\ UNCHANGED <<cpc, cio>>
         ELSE /\ cio' = closeDisplays
              /\ cpc' = "signal"
              /\ UNCHANGED lastCall
  /\ UNCHANGED <<pid, send, reg, dialStates, query, imgCall, lookup, attached, walk,
                 touchStripInput, dialInputs, errCh, open, devOpen, listen, closedChans,
                 nextChan, inputs, keyStates, now, lpc, lret, tasks, nReports, nOpens,
                 lastReport, events>>

\* if d.listen != nil { close(d.listen) ...
CloseSignal ==
  /\ cpc = "signal"
  /\ IF listen # 0
       THEN /\ closedChans' = closedChans \cup {listen}
            /\ cio' = Append(cio, <<"closeListen", listen, "">>)
            /\ cpc' = "nil"
       ELSE /\ cpc' = "dev"
            /\ UNCHANGED <<closedChans, cio>>
  /\ UNCHANGED <<pid, send, reg, dialStates, query, imgCall, lookup, attached, walk,
                 touchStripInput, dialInputs, errCh, open, devOpen, listen, nextChan,
                 inputs, keyStates, now, lpc, lret, tasks, lastCall, nReports, nOpens,
                 lastReport, events>>

\* ... d.listen = nil }
CloseNil ==
  /\ cpc = "nil"
  /\ listen' = 0
  /\ cpc' = "dev"
  /\ UNCHANGED <<pid, send, reg, dialStates, query, imgCall, lookup, attached, walk,
                 touchStripInput, dialInputs, errCh, open, devOpen, closedChans, nextChan,
                 inputs, keyStates, now, lpc, lret, cio, tasks, lastCall, nReports, nOpens,
                 lastReport, events>>

\* d.dev.Close(), then d.open = false
CloseDev ==
  /\ cpc = "dev"
  /\ cpc' = "none"
  /\ IF devOpen
       THEN /\ devOpen' = FALSE
            /\ open' = FALSE
            /\ cio' = Append(cio, <<"devClose", 0, "">>)
            /\ lastCall' = [op |-> "Close", err |-> "nil",
                            io |-> Append(cio, <<"devClose", 0, "">>)]
       ELSE /\ lastCall' = [op |-> "Close", err |-> "ErrDeviceIsClosed", io |-> cio]
            /\ UNCHANGED <<devOpen, open, cio>>
  /\ UNCHANGED <<pid, send, reg, dialStates, query, imgCall, lookup, attached, walk,
                 touchStripInput, dialInputs, errCh, listen, closedChans, nextChan, inputs,
                 keyStates, now, lpc, lret, tasks, nReports, nOpens, lastReport, events>>

(***************************************************************************)
(* Open, Reset and the operations guarded by validateOpen (streamdeck.go,  *)
(* image.go).  ok tells whether the transport carries the operation out.   *)
(***************************************************************************)
\* an Open that does not look at the state of the device
OpenUnchecked(ok) ==
  /\ nOpens < MaxOpens
  /\ ok
  /\ devOpen' = TRUE
  /\ open' = TRUE
  /\ listen' = nextChan
  /\ nextChan' = nextChan + 1
  /\ nOpens' = nOpens + 1
  /\ lastCall' = [op |-> "Open", err |-> "nil", io |-> << <<"devOpen", 1, "">> >>]
  /\ UNCHANGED <<pid, send, reg, dialStates, query, imgCall, lookup, attached, walk,
                 touchStripInput, dialInputs, errCh, closedChans, inputs, keyStates, now,
                 lpc, lret, cpc, cio, tasks, nReports, lastReport, events>>

Open(ok) ==
  /\ IsOpen \/ nOpens < MaxOpens
  /\ IF IsOpen
       THEN /\ lastCall' = [op |-> "Open", err |-> "ErrDeviceIsOpen", io |-> <<>>]
            /\ UNCHANGED <<open, devOpen, listen, nextChan, nOpens>>
       ELSE IF ~ok
         THEN /\ lastCall' = [op |-> "Open", err |-> "ErrDeviceFailedToOpen",
                              io |-> << <<"devOpen", 1, "">> >>]
              /\ UNCHANGED <<open, devOpen, listen, nextChan, nOpens>>
         ELSE /\ devOpen' = TRUE
              /\ open' = TRUE
              /\ listen' = nextChan
              /\ nextChan' = nextChan + 1
              /\ nOpens' = nOpens + 1
              /\ lastCall' = [op |-> "Open", err |-> "nil",
                              io |-> << <<"devOpen", 1, "">> >>]
  /\ UNCHANGED <<pid, send, reg, dialStates, query, imgCall, lookup, attached, walk,
                 touchStripInput, dialInputs, errCh, closedChans, inputs, keyStates, now,
                 lpc, lret, cpc, cio, tasks, nReports, lastReport, events>>

\* a call that touches nothing but the transport: it fails with err when
\* err is not "nil", otherwise it performs the transport operations io
facadeCall(op, err, io, ok) ==
  /\ lastCall' =
       IF err # "nil" THEN [op |-> op, err |-> err, io |-> <<>>]
       ELSE IF ~ok THEN [op |-> op, err |-> "ErrTransport", io |-> io]
       ELSE [op |-> op, err |-> "nil", io |-> io]
  /\ UNCHANGED <<pid, send, reg, dialStates, query, imgCall, lookup, attached, walk,
                 touchStripInput, dialInputs, errCh, open, devOpen, listen, closedChans,
                 nextChan, inputs, keyStates, now, lpc, lret, cpc, cio, tasks, nReports,
                 nOpens, lastReport, events>>

\* the first error of a list of checks, in order
firstErr(errs) ==
  IF \E n \in 1..Len(errs) : errs[n] # "nil"
    THEN errs[CHOOSE n \in 1..Len(errs) :
                 errs[n] # "nil" /\ \A m \in 1..(n - 1) : errs[m] = "nil"]
    ELSE "nil"

\* a Reset that leaves the transport open
ResetKeepsTransport(ok) ==
  /\ lastCall' =
       IF validateOpen # "nil" THEN [op |-> "Reset", err |-> validateOpen, io |-> <<>>]
       ELSE [op |-> "Reset", err |-> IF ok THEN "nil" ELSE "ErrTransport",
             io |-> << <<"reset", 0, "">> >>]
  /\ UNCHANGED <<pid, send, reg, dialStates, query, imgCall, lookup, attached, walk,
                 touchStripInput, dialInputs, errCh, open, devOpen, listen, closedChans,
                 nextChan, inputs, keyStates, now, lpc, lret, cpc, cio, tasks, nReports,
                 nOpens, lastReport, events>>

\* validateOpen; d.model.reset(d.dev), a feature report; d.dev.Close()
Reset(ok) ==
  /\ IF validateOpen # "nil"
       THEN /\ lastCall' = [op |-> "Reset", err |-> validateOpen, io |-> <<>>]
            /\ UNCHANGED devOpen
       ELSE IF ~ok
         THEN /\ lastCall' = [op |-> "Reset", err |-> "ErrTransport",
                              io |-> << <<"reset", 0, "">> >>]
              /\ UNCHANGED devOpen
         ELSE /\ devOpen' = FALSE
              /\ lastCall' = [op |-> "Reset", err |-> "nil",
                              io |-> << <<"reset", 0, "">>, <<"devClose", 0, "">> >>]
  /\ UNCHANGED <<pid, send, reg, dialStates, query, imgCall, lookup, attached, walk,
                 touchStripInput, dialInputs, errCh, open, listen, closedChans, nextChan,
                 inputs, keyStates, now, lpc, lret, cpc, cio, tasks, nReports, nOpens,
                 lastReport, events>>

\* a SetBrightness that passes the percentage on as it is
SetBrightnessAsGiven(perc, ok) ==
  facadeCall("SetBrightness", validateOpen, << <<"brightness", perc, "">> >>, ok)

SetBrightness(perc, ok) ==
  facadeCall("SetBrightness", validateOpen,
             << <<"brightness", IF perc > 100 THEN 100 ELSE perc, "">> >>, ok)

GetFirmwareVersion(ok) ==
  facadeCall("GetFirmwareVersion", validateOpen, << <<"firmwareVersion", 0, "">> >>, ok)

\* SetKeyColor -> SetKeyImage; ClearKey is SetKeyColor with color.Black
SetKeyColor(key, c, ok) ==
  facadeCall("SetKeyColor", firstErr(<<validateOpen, validateKey(key)>>),
             << <<"keyImage", key, c>> >>, ok)

\* SetTouchPointColor; ClearTouchPoint is SetTouchPointColor with color.Black
SetTouchPointColor(tp, c, ok) ==
  facadeCall("SetTouchPointColor", firstErr(<<validateOpen, validateTouchPoint(tp)>>),
             << <<"touchPointColor", tp, c>> >>, ok)

\* SetInfoBarColor -> SetInfoBarImage; ClearInfoBar is SetInfoBarColor with color.Black
SetInfoBarColor(c, ok) ==
  facadeCall("SetInfoBarColor",
             firstErr(<<validateOpen,
                        IF dmodel.infoBar THEN "nil" ELSE "ErrDeviceInfoBarNotSupported">>),
             << <<"infoBarImage", 0, c>> >>, ok)

\* SetTouchStripColor -> SetTouchStripImage; ClearTouchStrip is SetTouchStripColor
\* with color.Black
SetTouchStripColor(c, ok) ==
  facadeCall("SetTouchStripColor",
             firstErr(<<validateOpen,
                        IF dmodel.touchStrip THEN "nil"
                        ELSE "ErrDeviceTouchStripNotSupported">>),
             << <<"touchStripImage", 0, c>> >>, ok)

(***************************************************************************)
(* The display operations by the source of the image (image.go).  The      *)
(* FromReadCloser operations make the checks of the FromReader ones, the   *)
(* FromFS operations those of the FromFile ones.                           *)
(***************************************************************************)
\* genImage on an image argument: a nil image is rejected
imageErr(img) == IF img = "nil" THEN "ErrImageInvalid" ELSE "nil"

\* a reader argument: nil is rejected by the operation, then image.Decode
\* fails on what is not an image
readerErr(r) ==
  IF r = "nil" THEN "ErrImageInvalid" ELSE IF r = "garbage" THEN "ErrDecode" ELSE "nil"

\* a file name: os.Open fails, or image.Decode does
fileErr(name) ==
  IF name = "missing" THEN "ErrNotExist"
  ELSE IF name = "garbage" THEN "ErrDecode" ELSE "nil"

SetKeyImage(key, img, ok) ==
  facadeCall("SetKeyImage", firstErr(<<validateOpen, validateKey(key), imageErr(img)>>),
             << <<"keyImage", key, img>> >>, ok)

SetKeyImageFromReader(key, r, ok) ==
  facadeCall("SetKeyImageFromReader",
             firstErr(<<validateOpen, validateKey(key), readerErr(r)>>),
             << <<"keyImage", key, r>> >>, ok)

SetKeyImageFromFile(key, name, ok) ==
  facadeCall("SetKeyImageFromFile",
             firstErr(<<validateOpen, validateKey(key), fileErr(name)>>),
             << <<"keyImage", key, name>> >>, ok)

ClearKey(key, ok) ==
  facadeCall("ClearKey", firstErr(<<validateOpen, validateKey(key)>>),
             << <<"keyImage", key, "black">> >>, ok)

ClearTouchPoint(tp, ok) ==
  facadeCall("ClearTouchPoint", firstErr(<<validateOpen, validateTouchPoint(tp)>>),
             << <<"touchPointColor", tp, "black">> >>, ok)

SetInfoBarImage(img, ok) ==
  facadeCall("SetInfoBarImage",
             firstErr(<<validateOpen,
                        IF dmodel.infoBar THEN "nil" ELSE "ErrDeviceInfoBarNotSupported",
                        imageErr(img)>>),
             << <<"infoBarImage", 0, img>> >>, ok)

SetInfoBarImageFromReader(r, ok) ==
  facadeCall("SetInfoBarImageFromReader",
             firstErr(<<validateOpen, validateInfoBar, readerErr(r)>>),
             << <<"infoBarImage", 0, r>> >>, ok)

SetInfoBarImageFromFile(name, ok) ==
  facadeCall("SetInfoBarImageFromFile",
             firstErr(<<validateOpen, validateInfoBar, fileErr(name)>>),
             << <<"infoBarImage", 0, name>> >>, ok)

ClearInfoBar(ok) ==
  facadeCall("ClearInfoBar",
             firstErr(<<validateOpen,
                        IF dmodel.infoBar THEN "nil" ELSE "ErrDeviceInfoBarNotSupported">>),
             << <<"infoBarImage", 0, "black">> >>, ok)

SetTouchStripImage(img, ok) ==
  facadeCall("SetTouchStripImage",
             firstErr(<<validateOpen, validateTouchStrip, imageErr(img)>>),
             << <<"touchStripImage", 0, img>> >>, ok)

\* the rectangle is checked before the touch strip is
SetTouchStripImageWithRectangle(img, rect, ok) ==
  facadeCall("SetTouchStripImageWithRectangle",
             firstErr(<<validateOpen, validateTouchStripRectangle(rect),
                        validateTouchStrip, imageErr(img)>>),
             << <<"touchStripImage", 0, img, rect>> >>, ok)

SetTouchStripImageFromReader(r, ok) ==
  facadeCall("SetTouchStripImageFromReader",
             firstErr(<<validateOpen, validateTouchStrip, readerErr(r)>>),
             << <<"touchStripImage", 0, r>> >>, ok)

SetTouchStripImageFromReaderWithRectangle(r, rect, ok) ==
  facadeCall("SetTouchStripImageFromReaderWithRectangle",
             firstErr(<<validateOpen, validateTouchStrip,
                        validateTouchStripRectangle(rect), readerErr(r)>>),
             << <<"touchStripImage", 0, r, rect>> >>, ok)

SetTouchStripImageFromFile(name, ok) ==
  facadeCall("SetTouchStripImageFromFile",
             firstErr(<<validateOpen, validateTouchStrip, fileErr(name)>>),
             << <<"touchStripImage", 0, name>> >>, ok)

SetTouchStripImageFromFileWithRectangle(name, rect, ok) ==
  facadeCall("SetTouchStripImageFromFileWithRectangle",
             firstErr(<<validateOpen, validateTouchStrip,
                        validateTouchStripRectangle(rect), fileErr(name)>>),
             << <<"touchStripImage", 0, name, rect>> >>, ok)

\* SetTouchStripColorWithRectangle -> SetTouchStripImageWithRectangle
SetTouchStripColorWithRectangle(c, rect, ok) ==
  facadeCall("SetTouchStripColorWithRectangle",
             firstErr(<<validateOpen, validateTouchStripRectangle(rect),
                        validateTouchStrip>>),
             << <<"touchStripImage", 0, c, rect>> >>, ok)

ClearTouchStrip(ok) ==
  facadeCall("ClearTouchStrip", firstErr(<<validateOpen, validateTouchStrip>>),
             << <<"touchStripImage", 0, "black">> >>, ok)

\* ClearTouchStripWithRectangle -> SetTouchStripColorWithRectangle
ClearTouchStripWithRectangle(rect, ok) ==
  facadeCall("ClearTouchStripWithRectangle",
             firstErr(<<validateOpen, validateTouchStripRectangle(rect),
                        validateTouchStrip>>),
             << <<"touchStripImage", 0, "black", rect>> >>, ok)

(***************************************************************************)
(* Registration of dial and touch strip handlers (streamdeck.go; input.go, *)
(* addSwitchHandler, addRotateHandler, addTouchHandler, addSwipeHandler).  *)
(***************************************************************************)
\* the dial table after the lazy allocation in AddDial*Handler
ensureDialInputs == IF dialInputs = <<>> THEN newDialInputs(dmodel.dialCount) ELSE dialInputs

\* the touch strip slot after the lazy allocation in AddTouchStrip*Handler
ensureTouchStripInput ==
  IF ~touchStripInput.alloc THEN newTouchStripInput ELSE touchStripInput

\* the outcome of the checks all registrations make: the control, then fn
registrationErr(controlErr, fn, handlerErr) ==
  IF controlErr # "nil" THEN controlErr ELSE IF fn = "nil" THEN handlerErr ELSE "nil"

AddDialSwitchHandler(di, fn) ==
  /\ validateDial(di) = "nil" => Len(ensureDialInputs[di].switchHandlers) < MaxHandlers
  /\ LET err == registrationErr(validateDial(di), fn, "ErrDialHandlerInvalid")
     IN  /\ lastCall' = [op |-> "AddDialSwitchHandler", err |-> err, io |-> <<>>]
         /\ dialInputs' =
              IF err = "nil"
                THEN [ensureDialInputs EXCEPT
                        ![di].switchHandlers = Append(ensureDialInputs[di].switchHandlers, fn)]
                ELSE dialInputs
  /\ UNCHANGED <<pid, send, reg, dialStates, query, imgCall, lookup, attached, walk,
                 touchStripInput, errCh, open, devOpen, listen, closedChans, nextChan,
                 inputs, keyStates, now, lpc, lret, cpc, cio, tasks, nReports, nOpens,
                 lastReport, events>>

AddDialRotateHandler(di, fn) ==
  /\ validateDial(di) = "nil" => Len(ensureDialInputs[di].rotateHandlers) < MaxHandlers
  /\ LET err == registrationErr(validateDial(di), fn, "ErrDialHandlerInvalid")
     IN  /\ lastCall' = [op |-> "AddDialRotateHandler", err |-> err, io |-> <<>>]
         /\ dialInputs' =
              IF err = "nil"
                THEN [ensureDialInputs EXCEPT
                        ![di].rotateHandlers = Append(ensureDialInputs[di].rotateHandlers, fn)]
                ELSE dialInputs
  /\ UNCHANGED <<pid, send, reg, dialStates, query, imgCall, lookup, attached, walk,
                 touchStripInput, errCh, open, devOpen, listen, closedChans, nextChan,
                 inputs, keyStates, now, lpc, lret, cpc, cio, tasks, nReports, nOpens,
                 lastReport, events>>

AddTouchStripTouchHandler(fn) ==
  /\ Len(touchStripInput.touchHandlers) < MaxHandlers
  /\ LET err == registrationErr(validateTouchStrip, fn, "ErrTouchStripHandlerInvalid")
     IN  /\ lastCall' = [op |-> "AddTouchStripTouchHandler", err |-> err, io |-> <<>>]
         /\ touchStripInput' =
              IF err = "nil"
                THEN [ensureTouchStripInput EXCEPT
                        !.touchHandlers = Append(ensureTouchStripInput.touchHandlers, fn)]
                ELSE touchStripInput
  /\ UNCHANGED <<pid, send, reg, dialStates, query, imgCall, lookup, attached, walk, dialInputs,
                 errCh, open, devOpen, listen, closedChans, nextChan, inputs, keyStates,
                 now, lpc, lret, cpc, cio, tasks, nReports, nOpens, lastReport, events>>

AddTouchStripSwipeHandler(fn) ==
  /\ Len(touchStripInput.swipeHandlers) < MaxHandlers
  /\ LET err == registrationErr(validateTouchStrip, fn, "ErrTouchStripHandlerInvalid")
     IN  /\ lastCall' = [op |-> "AddTouchStripSwipeHandler", err |-> err, io |-> <<>>]
         /\ touchStripInput' =
              IF err = "nil"
                THEN [ensureTouchStripInput EXCEPT
                        !.swipeHandlers = Append(ensureTouchStripInput.swipeHandlers, fn)]
                ELSE touchStripInput
  /\ UNCHANGED <<pid, send, reg, dialStates, query, imgCall, lookup, attached, walk, dialInputs,
                 errCh, open, devOpen, listen, closedChans, nextChan, inputs, keyStates,
                 now, lpc, lret, cpc, cio, tasks, nReports, nOpens, lastReport, events>>

(***************************************************************************)
(* The input engine: an open device, handlers registered at any time on    *)
(* the active control, one goroutine in Listen, the handler goroutines.    *)
(***************************************************************************)
\* one step of the polling loop; it is taken only when the loop does not
\* have to wait for a handler
LoopStep ==
  /\ ListenFree
  /\ \/ ListenSelect
     \/ ListenNilCheck
     \/ ListenReadFail
     \/ \E buf \in Reports, dt \in Ticks : ListenRead(1, buf, dt)

NextInput ==
  \/ ~Crashed /\ \E key \in ActiveKeys, fn \in HandlerKinds : AddKeyHandler(key, fn)
  \/ ~Crashed /\ \E tp \in ActiveTouchPoints, fn \in HandlerKinds :
                    AddTouchPointHandler(tp, fn)
  \/ ListenStart
  \/ ListenFree /\ ListenSelect
  \/ ListenFree /\ ListenNilCheck
  \/ ListenFree /\ ListenReadFail
  \/ ListenFree /\ \E buf \in Reports, dt \in Ticks : ListenRead(1, buf, dt)
  \/ ~Crashed /\ \E k \in 1..Len(tasks) : TaskWait(k)
  \/ ~Crashed /\ \E k \in 1..Len(tasks) : TaskWake(k)
  \/ ~Crashed /\ \E k \in 1..Len(tasks) : TaskReturn(k)

SpecInput == InitInput /\ [][NextInput]_vars

(***************************************************************************)
(* Reading the history.                                                    *)
(***************************************************************************)
\* what a step appended to the history and to the goroutines
NewEvents == SubSeq(events', Len(events) + 1, Len(events'))

NewTasks == SubSeq(tasks', Len(tasks) + 1, Len(tasks'))

\* indices, in sequence evs, of the events of slot i
EventsOf(evs, i) == {n \in 1..Len(evs) : evs[n].slot = i}

\* a step of the polling loop that consumed a report
ReportStep == nReports' = nReports + 1

\* slot i exists and has a handler
Registered(i) == inputs # <<>> /\ Len(inputs[i].handlers) > 0

\* index in events of the last press of slot i, 0 when there is none
LastPress(i) ==
  LET ps == {n \in EventsOf(events, i) : events[n].ev = "press"}
  IN  IF ps = {} THEN 0 ELSE CHOOSE n \in ps : \A m \in ps : m <= n

\* index in events of the first release of slot i after event p, 0 when
\* there is none
ReleaseOf(p) ==
  LET rs == {n \in EventsOf(events, events[p].slot) : n > p /\ events[n].ev = "release"}
  IN  IF rs = {} THEN 0 ELSE CHOOSE n \in rs : \A m \in rs : n <= m

(***************************************************************************)
(* C1: when a control with a registered handler goes from 0 to non-zero    *)
(* the handlers are dispatched exactly once (one press, each handler       *)
(* called once), when it goes back to 0 exactly one release is dispatched, *)
(* that of the same press, with a duration >= 0, and a report that changes *)
(* no state byte dispatches nothing.                                       *)
(***************************************************************************)
C1_Step ==
  ReportStep =>
    /\ lastReport' = lastReport => events' = events /\ tasks' = tasks
    /\ \A i \in 1..NumSlots :
         Registered(i) =>
           /\ (lastReport[i] = 0 /\ lastReport'[i] > 0) =>
                /\ \E n \in 1..Len(NewEvents) :
                     /\ EventsOf(NewEvents, i) = {n}
                     /\ NewEvents[n].ev = "press"
                /\ \A h \in 1..Len(inputs[i].handlers) :
                     Cardinality({k \in 1..Len(NewTasks) :
                                    NewTasks[k].slot = i /\ NewTasks[k].h = h}) = 1
                /\ \A k \in 1..Len(NewTasks) :
                     NewTasks[k].slot = i =>
                       /\ NewTasks[k].h \in 1..Len(inputs[i].handlers)
                       /\ NewTasks[k].kind = inputs[i].handlers[NewTasks[k].h]
           /\ (lastReport[i] > 0 /\ lastReport'[i] = 0 /\ inputs[i].pressed # 0) =>
                \E n \in 1..Len(NewEvents) :
                  /\ EventsOf(NewEvents, i) = {n}
                  /\ NewEvents[n].ev = "release"
                  /\ NewEvents[n].ch = events[LastPress(i)].ch
                  /\ NewEvents[n].n = NewEvents[n].t - events[LastPress(i)].t
                  /\ NewEvents[n].n >= 0
                  /\ inputs'[i].duration = NewEvents[n].n

C1_PressReleaseOnce == [][C1_Step]_vars

\* a press with a handler, followed by its release
C1_Witness ==
  \E n \in 1..(Len(events) - 1) :
    /\ events[n].ev = "press" /\ events[n].n >= 1
    /\ events[n + 1].ev = "release"
    /\ events[n + 1].slot = events[n].slot
    /\ events[n + 1].ch = events[n].ch
    /\ \E k \in 1..Len(tasks) : tasks[k].press = n

(***************************************************************************)
(* C2: on every slot press and release strictly alternate, starting with   *)
(* a press: a slot is never pressed twice without a release in between     *)
(* (also when its byte goes from one non-zero value to another) and never  *)
(* released while idle.                                                    *)
(***************************************************************************)
C2_Alternate ==
  \A i \in 1..NumSlots :
    \A n \in EventsOf(events, i) :
      events[n].ev =
        IF Cardinality({m \in EventsOf(events, i) : m < n}) % 2 = 0
          THEN "press" ELSE "release"

(***************************************************************************)
(* C3: WaitForRelease returns only after the release of the press its      *)
(* handler was called for, and returns the time from that press to that    *)
(* release, whatever the interleaving with the polling loop.               *)
(***************************************************************************)
C3_WaitReturnsOwnDuration ==
  \A k \in 1..Len(tasks) :
    tasks[k].pc \in {"woken", "done"} =>
      /\ ReleaseOf(tasks[k].press) # 0
      /\ tasks[k].ch = events[tasks[k].press].ch
      /\ tasks[k].pc = "done" =>
           tasks[k].ret = events[ReleaseOf(tasks[k].press)].t - events[tasks[k].press].t

(***************************************************************************)
(* C4: a handler blocked in WaitForRelease never keeps the polling loop    *)
(* from taking its next step, and the release of a press unblocks every    *)
(* handler that waits on that press.                                       *)
(***************************************************************************)
C4_LoopFree ==
  (/\ lpc \in {"select", "nilcheck", "read"}
   /\ \E k \in 1..Len(tasks) : tasks[k].pc = "waiting") => ENABLED LoopStep

C4_ReleaseStep ==
  ReportStep =>
    \A n \in 1..Len(NewEvents) :
      (NewEvents[n].ev = "release" /\ NewEvents[n].ch # 0) =>
        \A k \in 1..Len(tasks) :
          (/\ tasks[k].pc = "waiting"
           /\ \/ tasks[k].ch = NewEvents[n].ch
              \/ tasks[k].press = LastPress(NewEvents[n].slot)) =>
            /\ tasks[k].ch \in closedChans'
            /\ tasks'[k] = tasks[k]

C4_WaitDoesNotBlockLoop == [](C4_LoopFree) /\ [][C4_ReleaseStep]_vars

\* two handlers of one press were blocked in WaitForRelease while the loop
\* read the release, and both have been unblocked
C4_Witness ==
  \E j, k \in 1..Len(tasks) :
    /\ j < k
    /\ tasks[j].press = tasks[k].press
    /\ tasks[j].pc = "woken" /\ tasks[k].pc = "woken"
    /\ tasks[j].ch = events[tasks[j].press].ch
    /\ tasks[k].ch = tasks[j].ch

(***************************************************************************)
(* C5: every press starts each registered handler exactly once, as a       *)
(* goroutine of its own: a handler can run whatever the other handlers of  *)
(* the press are doing, and the loop goes on without waiting for them.     *)
(***************************************************************************)
C5_NotSerialized ==
  \A k \in 1..Len(tasks) :
    (tasks[k].pc = "start" /\ tasks[k].kind = "wait" /\ ~Crashed) => ENABLED TaskWait(k)

C5_PressStep ==
  ReportStep =>
    /\ \A i \in 1..NumSlots :
         (inputs # <<>> /\ lastReport[i] = 0 /\ lastReport'[i] > 0) =>
           \E n \in 1..Len(NewEvents) : NewEvents[n].ev = "press" /\ NewEvents[n].slot = i
    /\ \A n \in 1..Len(NewEvents) :
         NewEvents[n].ev = "press" =>
           LET i  == NewEvents[n].slot
               ks == {k \in 1..Len(NewTasks) : NewTasks[k].press = Len(events) + n}
           IN  /\ Cardinality(ks) = Len(inputs[i].handlers)
               /\ \A h \in 1..Len(inputs[i].handlers) :
                    \E k \in ks : /\ NewTasks[k].slot = i
                                  /\ NewTasks[k].h = h
                                  /\ NewTasks[k].kind = inputs[i].handlers[h]
                                  /\ NewTasks[k].pc = "start"
    /\ (\E n \in 1..Len(NewEvents) : NewEvents[n].ev = "press") =>
         lpc' = "select" /\ ListenFree'

C5_HandlersConcurrent == [](C5_NotSerialized) /\ [][C5_PressStep]_vars

\* two handlers of one press: the first never returns, the second is in
\* WaitForRelease, and the loop has read another report since
C5_Witness ==
  \E j, k \in 1..Len(tasks) :
    /\ j < k
    /\ tasks[j].press = tasks[k].press
    /\ tasks[j].kind = "block"
    /\ tasks[k].pc = "waiting"
    /\ nReports > events[tasks[k].press].t - 1

(***************************************************************************)
(* Stopping: the input engine with press / release reports, handlers       *)
(* registered before Listen is called, and one goroutine calling Close.    *)
(***************************************************************************)
StopReports == {mkReport(vals) : vals \in [ActiveSlots -> {0, 1}]}

NextStop ==
  \/ lpc = "none" /\ \E key \in ActiveKeys, fn \in HandlerKinds : AddKeyHandler(key, fn)
  \/ lpc = "none" /\ \E tp \in ActiveTouchPoints, fn \in HandlerKinds :
                        AddTouchPointHandler(tp, fn)
  \/ ListenStart
  \/ ListenFree /\ ListenSelect
  \/ ListenFree /\ ListenNilCheck
  \/ ListenFree /\ ListenReadFail
  \/ ListenFree /\ \E buf \in StopReports, dt \in Ticks : ListenRead(1, buf, dt)
  \/ \E k \in 1..Len(tasks) : TaskWait(k)
  \/ \E k \in 1..Len(tasks) : TaskWake(k)
  \/ \E k \in 1..Len(tasks) : TaskReturn(k)
  \/ CloseStart(0)
  \/ CloseSignal
  \/ CloseNil
  \/ CloseDev

SpecStop == InitInput /\ [][NextStop]_vars

\* Close has released the stop signal
StopReleased == \E n \in 1..Len(cio) : cio[n][1] = "closeListen"

(***************************************************************************)
(* C10: once Close has released the stop signal, a running Listen returns  *)
(* nil at its next check of the signal, without reading another report,    *)
(* and the handler goroutines already started are left to run.             *)
(***************************************************************************)
C10_Step ==
  StopReleased =>
    /\ (lpc = "select" /\ lpc' # lpc) =>
         /\ \/ lpc' = "returned" /\ lret' = "nil"
            \/ lpc' = "nilcheck" /\ listen' = 0
         /\ nReports' = nReports
         /\ tasks' = tasks
    /\ (lpc = "nilcheck" /\ listen = 0 /\ lpc' # lpc) =>
         /\ lpc' = "returned" /\ lret' = "nil"
         /\ nReports' = nReports
         /\ tasks' = tasks
    /\ (cpc' # cpc) => tasks' = tasks

C10_TasksGoOn ==
  (StopReleased /\ lpc = "returned") =>
    \A k \in 1..Len(tasks) :
      /\ (tasks[k].pc = "start" /\ tasks[k].kind = "wait") => ENABLED TaskWait(k)
      /\ tasks[k].pc = "woken" => ENABLED TaskReturn(k)

C10_ListenStops == [](C10_TasksGoOn) /\ [][C10_Step]_vars

\* Listen has returned nil after Close released the stop signal, having
\* dispatched a press whose handler is still in WaitForRelease
C10_Witness ==
  /\ StopReleased
  /\ lpc = "returned" /\ lret = "nil"
  /\ \E k \in 1..Len(tasks) : tasks[k].pc = "waiting"

(***************************************************************************)
(* The life cycle of a Device: every model of the registry, calls of the   *)
(* facade in any order and with valid and invalid arguments, one goroutine *)
(* in Listen and one in Close.                                             *)
(***************************************************************************)
\* arguments of the calls: below, inside and above the valid range
KeyArgs == {0, 1, dmodel.keyCount + 1}

TouchPointArgs == {1, dmodel.touchPointCount + 1}

Colors == {"red"}

Percents == {0, 101}

\* handler arguments: nil, or a function
HandlerArgs == {"nil", "wait"}

Next ==
  \/ \E ok \in BOOLEAN : Open(ok)
  \/ \E failAt \in {0, 1} : CloseStart(failAt)
  \/ CloseSignal
  \/ CloseNil
  \/ CloseDev
  \/ \E ok \in BOOLEAN : Reset(ok)
  \/ \E perc \in Percents : SetBrightness(perc, TRUE)
  \/ GetFirmwareVersion(TRUE)
  \/ \E key \in KeyArgs, c \in Colors, ok \in BOOLEAN : SetKeyColor(key, c, ok)
  \/ \E tp \in TouchPointArgs, c \in Colors : SetTouchPointColor(tp, c, TRUE)
  \/ \E c \in Colors : SetInfoBarColor(c, TRUE)
  \/ \E c \in Colors : SetTouchStripColor(c, TRUE)
  \/ \E key \in KeyArgs, fn \in HandlerArgs : AddKeyHandler(key, fn)
  \/ \E tp \in TouchPointArgs, fn \in HandlerArgs : AddTouchPointHandler(tp, fn)
  \/ ListenStart
  \/ ListenSelect
  \/ ListenNilCheck
  \/ ListenReadFail

Spec == Init /\ [][Next]_vars

(***************************************************************************)
(* C7: Close on an open device clears every display (the keys in ascending *)
(* order, the touch points, then the info bar and the touch strip when the *)
(* model has them) before it releases the stop signal and before it closes *)
(* the transport, and writes to no display after either of the two.        *)
(***************************************************************************)
\* number of displays of the model
NumDisplays ==
  dmodel.keyCount + dmodel.touchPointCount
    + (IF dmodel.infoBar THEN 1 ELSE 0) + (IF dmodel.touchStrip THEN 1 ELSE 0)

\* io starts with the clearing of every display, in order, and goes on with
\* the release of the stop signal and the closing of the transport only
ClearsFirst(io) ==
  /\ Len(io) >= NumDisplays
  /\ \A k \in 1..dmodel.keyCount : io[k] = <<"keyImage", k, "black">>
  /\ \A j \in 1..dmodel.touchPointCount :
       io[dmodel.keyCount + j] = <<"touchPointColor", j, "black">>
  /\ dmodel.infoBar =>
       io[dmodel.keyCount + dmodel.touchPointCount + 1] = <<"infoBarImage", 0, "black">>
  /\ dmodel.touchStrip => io[NumDisplays] = <<"touchStripImage", 0, "black">>
  /\ \A n \in (NumDisplays + 1)..Len(io) :
       /\ io[n][1] \in {"closeListen", "devClose"}
       /\ io[n][1] = "closeListen" => n = NumDisplays + 1
       /\ io[n][1] = "devClose" => n = Len(io)

C7_Order ==
  /\ cpc # "none" => ClearsFirst(cio)
  /\ (lastCall.op = "Close" /\ lastCall.err = "nil") =>
       /\ ClearsFirst(lastCall.io)
       /\ lastCall.io[Len(lastCall.io)][1] = "devClose"
  /\ cpc = "signal" => listen = 0 \/ listen \notin closedChans

\* the stop signal is released, and the transport is closed by Close, only
\* by a Close that has cleared the displays
C7_Step ==
  /\ closedChans' # closedChans =>
       /\ ClearsFirst(cio) /\ Len(cio) = NumDisplays
       /\ cio' = Append(cio, <<"closeListen", listen, "">>)
       /\ closedChans' = closedChans \cup {listen}
  /\ (cpc = "dev" /\ devOpen /\ ~devOpen') => ClearsFirst(cio)

C7_CloseClearsFirst == [](C7_Order) /\ [][C7_Step]_vars

\* a Close of a model with keys, touch points and an info bar has returned,
\* having released the stop signal
C7_Witness ==
  /\ dmodel.touchPointCount > 0 /\ dmodel.infoBar
  /\ lastCall.op = "Close" /\ lastCall.err = "nil"
  /\ \E n \in 1..Len(lastCall.io) : lastCall.io[n][1] = "closeListen"

(***************************************************************************)
(* C8: on a device that is not open, every operation other than Open is    *)
(* rejected with ErrDeviceIsClosed and changes nothing.                    *)
(***************************************************************************)
\* nothing of the device changes
NoEffect ==
  UNCHANGED <<pid, send, reg, dialStates, query, imgCall, lookup, attached, walk,
              touchStripInput, dialInputs, errCh, open, devOpen, listen, closedChans,
              nextChan, inputs, keyStates, now, cpc, cio, tasks, nReports, nOpens,
              lastReport, events>>

\* a step of a call of Open: only Open writes "Open" to lastCall or adds to
\* the count of successful opens
OpenStep == lastCall'.op = "Open" /\ (lastCall' # lastCall \/ nOpens' # nOpens)

\* a step of a Close or of a Listen that is already running (it was called
\* when the device was open)
RunningStep ==
  \/ cpc # "none" /\ cpc' # cpc
  \/ lpc \in {"select", "nilcheck", "read"} /\ lpc' # lpc

\* a step of a call of AddKeyHandler or AddTouchPointHandler
RegistrationStep ==
  /\ lastCall'.op \in {"AddKeyHandler", "AddTouchPointHandler"}
  /\ lastCall' # lastCall \/ inputs' # inputs

\* the step is the whole of a call that is rejected: a facade call returns
\* ErrDeviceIsClosed, a Listen returns ErrDeviceIsClosed
RejectedStep ==
  /\ NoEffect
  /\ lastCall' # lastCall =>
       lastCall'.err = "ErrDeviceIsClosed" /\ lastCall'.io = <<>>
  /\ (lpc' # lpc \/ lret' # lret) =>
       lpc' = "returned" /\ lret' = "ErrDeviceIsClosed"

C8_AllRejectedStep == (~IsOpen /\ ~OpenStep /\ ~RunningStep) => RejectedStep

C8_AllRejected == [][C8_AllRejectedStep]_vars

(***************************************************************************)
(* C8, as the code has it: on a device that is not open, Close, Listen,    *)
(* Reset, SetBrightness, GetFirmwareVersion and the Set* / Clear* display  *)
(* operations are rejected with ErrDeviceIsClosed and change nothing; the  *)
(* registration of a handler is not: it never returns ErrDeviceIsClosed,   *)
(* and with a valid control and a non-nil handler it registers the handler *)
(* and touches nothing but the slot table.                                 *)
(***************************************************************************)
\* the handler fn has been appended to slot i of a table that, before, was
\* the one of the device or a fresh one
RegisteredOn(i, fn) ==
  /\ inputs' # <<>>
  /\ inputs'[i].handlers = Append(ensureInputs[i].handlers, fn)
  /\ \A j \in 1..NumSlots : j # i => inputs'[j] = ensureInputs[j]

RegistrationOutcome ==
  /\ lastCall'.err \in {"nil", "ErrKeyInvalid", "ErrKeyHandlerInvalid",
                        "ErrDeviceTouchPointNotSupported", "ErrTouchPointInvalid",
                        "ErrTouchPointHandlerInvalid"}
  /\ lastCall'.io = <<>>
  /\ IF lastCall'.err = "nil"
       THEN \E i \in 1..NumSlots : RegisteredOn(i, "wait")
       ELSE inputs' = inputs
  /\ UNCHANGED <<pid, send, reg, dialStates, query, imgCall, lookup, attached, walk,
                 touchStripInput, dialInputs, errCh, open, devOpen, listen, closedChans,
                 nextChan, keyStates, now, lpc, lret, cpc, cio, tasks, nReports, nOpens,
                 lastReport, events>>

C8_Step ==
  (~IsOpen /\ ~OpenStep /\ ~RunningStep) =>
    IF RegistrationStep THEN RegistrationOutcome ELSE RejectedStep

C8_IoRejectedRegistrationNot == [][C8_Step]_vars

\* on a device that was never opened a handler has been registered, and a
\* display operation has then been rejected
C8_Witness ==
  /\ nOpens = 0 /\ ~IsOpen
  /\ inputs # <<>> /\ Len(inputs[KeySlot(1)].handlers) > 0
  /\ lastCall = [op |-> "SetKeyColor", err |-> "ErrDeviceIsClosed", io |-> <<>>]

(***************************************************************************)
(* C9: Open on an open device fails with ErrDeviceIsOpen and changes       *)
(* nothing (the transport is not reopened, the stop signal stays); Open on *)
(* a device that is not open opens the transport in exclusive mode and     *)
(* installs a stop signal that is new and not signalled.                   *)
(***************************************************************************)
C9_Step ==
  OpenStep =>
    IF IsOpen
      THEN /\ lastCall' = [op |-> "Open", err |-> "ErrDeviceIsOpen", io |-> <<>>]
           /\ NoEffect
           /\ UNCHANGED <<lpc, lret>>
      ELSE /\ lastCall'.io = << <<"devOpen", 1, "">> >>
           /\ lastCall'.err \in {"nil", "ErrDeviceFailedToOpen"}
           /\ IF lastCall'.err = "nil"
                THEN /\ open' /\ devOpen'
                     /\ listen' # 0
                     /\ listen' # listen
                     /\ listen' \notin closedChans'
                     /\ listen' \notin {cio[n][2] : n \in {m \in 1..Len(cio) :
                                                           cio[m][1] = "closeListen"}}
                     /\ inputs # <<>> =>
                          \A i \in 1..NumSlots : inputs[i].channel # listen'
                ELSE NoEffect

C9_OpenOnce == [][C9_Step]_vars

\* the device was opened, closed and opened again, and an Open on the open
\* device has then failed
C9_Witness ==
  /\ nOpens = MaxOpens /\ IsOpen
  /\ listen \notin closedChans /\ closedChans # {}
  /\ lastCall = [op |-> "Open", err |-> "ErrDeviceIsOpen", io |-> <<>>]

(***************************************************************************)
(* Sending one image: an open device, imageSend called on a payload, with  *)
(* a report length and a header length.                                    *)
(***************************************************************************)
\* payload lengths: empty, less than a page, a page exactly, more; and up
\* to and beyond what 16 bits count
PayloadLens == {0, 1, 1008, 1009, 1010, 1017, 1018, 2034, 2035, 19254,
                65000, 65535, 65536, 65537, 66553, 70000, 131072}

\* lengths of the output report: that of the Stream Decks, and a short one
ReportLens == {1024, 64}

\* lengths of the page headers of the registry
HdrLens == {7, 15}

InitSend ==
  /\ pid \in DevicePids
  /\ open = TRUE
  /\ devOpen = TRUE
  /\ listen = 1
  /\ closedChans = {}
  /\ nextChan = 2
  /\ inputs = <<>>
  /\ keyStates = <<>>
  /\ now = 1
  /\ lpc = "none"
  /\ lret = "none"
  /\ cpc = "none"
  /\ cio = <<>>
  /\ tasks = <<>>
  /\ lastCall = [op |-> "Open", err |-> "nil", io |-> << <<"devOpen", 1, "">> >>]
  /\ nReports = 0
  /\ nOpens = 1
  /\ reg = noReg
  /\ dialStates = <<>>
  /\ query = noQuery
  /\ imgCall = noImgCall
  /\ lookup = noLookup
  /\ attached = <<usbDevice(elgatoVendorID, pid, "A")>>
  /\ walk = noWalk
  /\ touchStripInput = noTouchStripInput
  /\ dialInputs = <<>>
  /\ errCh = noErrCh
  /\ lastReport = Zeros(NumSlots)
  /\ events = <<>>
  /\ \E len \in PayloadLens, cap \in ReportLens, hdr \in HdrLens :
       send = newSend(len, cap, hdr)

NextSend == \E ok \in BOOLEAN : SendPage(ok)

SpecSend == InitSend /\ [][NextSend]_vars

(***************************************************************************)
(* C6: for every payload length and every report length, imageSend writes  *)
(* pages whose chunks, in order, are the payload (their sizes sum to its    *)
(* length), exactly one page is marked last, and it is the last written.   *)
(***************************************************************************)
C6_ChunksCoverPayload ==
  /\ send.pc # "panic"
  /\ send.pc = "done" =>
       /\ send.total = send.len
       /\ send.next = send.len
       /\ send.nLast = 1
       /\ ~send.afterLast

(***************************************************************************)
(* Handler errors: the input engine with handlers that return an error,    *)
(* Listen called with a nil channel, an unbuffered one or a single-slot    *)
(* one, and a caller that receives from it or never does.                  *)
(***************************************************************************)
ErrChans ==
  {newErrCh("nil", 0, "none")}
    \cup {newErrCh("chan", cap, recv) : cap \in {0, 1}, recv \in {"none", "idle"}}

InitErr ==
  /\ pid \in InputPids
  /\ open = TRUE
  /\ devOpen = TRUE
  /\ listen = 1
  /\ closedChans = {}
  /\ nextChan = 2
  /\ inputs = <<>>
  /\ keyStates = <<>>
  /\ now = 1
  /\ lpc = "none"
  /\ lret = "none"
  /\ cpc = "none"
  /\ cio = <<>>
  /\ tasks = <<>>
  /\ lastCall = [op |-> "Open", err |-> "nil", io |-> << <<"devOpen", 1, "">> >>]
  /\ nReports = 0
  /\ nOpens = 1
  /\ reg = noReg
  /\ dialStates = <<>>
  /\ query = noQuery
  /\ imgCall = noImgCall
  /\ lookup = noLookup
  /\ attached = <<usbDevice(elgatoVendorID, pid, "A")>>
  /\ walk = noWalk
  /\ touchStripInput = noTouchStripInput
  /\ dialInputs = <<>>
  /\ lastReport = Zeros(NumSlots)
  /\ events = <<>>
  /\ send = noSend
  /\ errCh \in ErrChans

NextErr ==
  \/ lpc = "none" /\ \E key \in ActiveKeys : AddKeyHandler(key, "fail")
  \/ lpc = "none" /\ \E tp \in ActiveTouchPoints : AddTouchPointHandler(tp, "fail")
  \/ ListenStart
  \/ ListenFree /\ ListenSelect
  \/ ListenFree /\ ListenNilCheck
  \/ ListenFree /\ ListenReadFail
  \/ ListenFree /\ \E buf \in StopReports, dt \in Ticks : ListenRead(1, buf, dt)
  \/ \E k \in 1..Len(tasks) : TaskFail(k)
  \/ \E k \in 1..Len(tasks) : TaskDeliver(k)
  \/ ErrReceive

SpecErr == InitErr /\ [][NextErr]_vars

\* errors that reached the caller or wait in the channel, and those logged
Delivered(ch) == {ch.got[n] : n \in 1..Len(ch.got)} \cup {ch.buf[n] : n \in 1..Len(ch.buf)}

Logged(ch) == {ch.log[n] : n \in 1..Len(ch.log)}

\* the step in which goroutine k delivers its error
DeliverStep(k) == k <= Len(tasks) /\ tasks[k].pc = "erred" /\ tasks'[k].pc = "done"

(***************************************************************************)
(* C11: the delivery of a handler's error never blocks: whatever the error *)
(* channel is (nil, empty, full, never received from), the goroutine that  *)
(* holds the error can deliver it at once and then ends, and the polling   *)
(* loop can take its next step whatever the state of the deliveries.       *)
(***************************************************************************)
C11_NeverBlocked ==
  /\ \A k \in 1..Len(tasks) : tasks[k].pc = "erred" => ENABLED TaskDeliver(k)
  /\ (lpc \in {"select", "nilcheck", "read"}
        /\ \E k \in 1..Len(tasks) : tasks[k].pc = "erred") => ENABLED LoopStep

C11_Step ==
  \A k \in 1..MaxTasks :
    DeliverStep(k) =>
      /\ \A j \in 1..Len(tasks) : j # k => tasks'[j] = tasks[j]
      /\ UNCHANGED <<lpc, lret, inputs, keyStates, closedChans, listen>>

C11_DeliveryNeverBlocks == [](C11_NeverBlocked) /\ [][C11_Step]_vars

\* on a single-slot channel nobody receives from, the first goroutine has
\* filled the channel, the second has ended all the same, and the loop has
\* read another report since
C11_Witness ==
  /\ errCh.kind = "chan" /\ errCh.cap = 1 /\ errCh.recv = "none"
  /\ Len(errCh.buf) = 1
  /\ Cardinality({k \in 1..Len(tasks) : tasks[k].pc = "done"}) >= 2
  /\ lpc = "select" /\ nReports >= 2

\* a channel that is there and is full: its buffer holds as many errors as
\* it has slots, and no receiver is blocked on it
Full(ch) == ch.kind = "chan" /\ ch.cap > 0 /\ Len(ch.buf) = ch.cap /\ ch.recv # "waiting"

\* error e goes to the logger and not to the channel
LoggedStep(e) ==
  /\ errCh'.log = Append(errCh.log, e)
  /\ errCh'.buf = errCh.buf /\ errCh'.got = errCh.got /\ errCh'.recv = errCh.recv

\* error e goes to the channel (to its buffer, or to the receiver blocked on
\* it) and not to the logger
DeliveredStep(e) ==
  /\ errCh'.log = errCh.log
  /\ \/ /\ errCh.recv = "waiting"
        /\ errCh'.got = Append(errCh.got, e) /\ errCh'.recv = "idle"
        /\ errCh'.buf = errCh.buf
     \/ /\ errCh.recv # "waiting"
        /\ errCh'.buf = Append(errCh.buf, e) /\ Len(errCh'.buf) <= errCh.cap
        /\ errCh'.got = errCh.got /\ errCh'.recv = errCh.recv

(***************************************************************************)
(* C12: when a handler returns an error and the error channel is nil or    *)
(* full the error is logged and not sent; when the channel has room the    *)
(* error is delivered on it.                                               *)
(***************************************************************************)
C12_FullStep ==
  \A k \in 1..MaxTasks :
    DeliverStep(k) =>
      /\ (errCh.kind = "nil" \/ Full(errCh)) => LoggedStep(k)
      /\ sendReady(errCh) => DeliveredStep(k)

C12_NilOrFullLogged == [][C12_FullStep]_vars

(***************************************************************************)
(* C12, as the code has it: with a nil channel the error is logged and not *)
(* sent; with a channel that can take it (room in the buffer, or a         *)
(* receiver blocked on it) the error is delivered on it and not logged;    *)
(* with a channel that cannot take it (full, or unbuffered with no         *)
(* receiver blocked on it) the error is dropped: it is neither delivered   *)
(* nor logged.                                                             *)
(***************************************************************************)
C12_Step ==
  \A k \in 1..MaxTasks :
    DeliverStep(k) =>
      /\ errCh.kind = "nil" => LoggedStep(k)
      /\ sendReady(errCh) => DeliveredStep(k)
      /\ (errCh.kind = "chan" /\ ~sendReady(errCh)) => errCh' = errCh
      /\ errCh'.kind = errCh.kind /\ errCh'.cap = errCh.cap

C12_Accounted ==
  \A k \in 1..Len(tasks) :
    /\ k \in Logged(errCh) => errCh.kind = "nil" /\ tasks[k].pc = "done"
    /\ k \in Delivered(errCh) => errCh.kind = "chan" /\ tasks[k].pc = "done"
    /\ tasks[k].pc # "done" => k \notin Logged(errCh) \cup Delivered(errCh)

C12_NilLoggedFullDropped == [](C12_Accounted) /\ [][C12_Step]_vars

\* on a single-slot channel the first error is in the buffer and the second
\* goroutine has ended with its error neither delivered nor logged
C12_Witness ==
  /\ errCh.kind = "chan" /\ errCh.cap = 1
  /\ errCh.buf = <<1>>
  /\ Len(tasks) >= 2 /\ tasks[2].pc = "done"
  /\ 2 \notin Delivered(errCh) \cup Logged(errCh)

(***************************************************************************)
(* Reset.                                                                  *)
(***************************************************************************)
\* a step of a call of Reset
ResetStep == lastCall'.op = "Reset" /\ lastCall' # lastCall

\* the device was reset and not opened again: Reset closes the transport
\* and leaves Device.open set
WasReset == open /\ ~devOpen

\* what a Reset of an open device does: the reset feature report, then the
\* closing of the transport, and no other transport operation; nothing but
\* the transport handle changes
C13_ResetStep ==
  (ResetStep /\ IsOpen) =>
    /\ UNCHANGED <<pid, send, reg, dialStates, query, imgCall, lookup, attached, walk,
                   touchStripInput, dialInputs, errCh, open, listen, closedChans, nextChan,
                   inputs, keyStates, now, lpc, lret, cpc, cio, tasks, nReports, nOpens,
                   lastReport, events>>
    /\ \/ /\ lastCall' = [op |-> "Reset", err |-> "nil",
                          io |-> << <<"reset", 0, "">>, <<"devClose", 0, "">> >>]
          /\ ~devOpen'
          /\ ~IsOpen'
          /\ WasReset'
       \/ /\ lastCall' = [op |-> "Reset", err |-> "ErrTransport",
                          io |-> << <<"reset", 0, "">> >>]
          /\ devOpen' = devOpen

(***************************************************************************)
(* C13: Reset on an open device issues the reset feature report and then   *)
(* closes the transport, with no other transport I/O; after a successful   *)
(* Reset the device is not open and every operation other than Open is     *)
(* rejected.                                                               *)
(***************************************************************************)
C13_AllStep ==
  /\ C13_ResetStep
  /\ (WasReset /\ ~OpenStep /\ ~RunningStep) => RejectedStep

C13_ResetThenAllRejected == [][C13_AllStep]_vars

(***************************************************************************)
(* C13, as the code has it: Reset on an open device issues the reset       *)
(* feature report and then closes the transport, with no other transport   *)
(* I/O; after a successful Reset the device is not open, and Close,        *)
(* Listen, Reset, SetBrightness, GetFirmwareVersion and the Set* / Clear*  *)
(* display operations are rejected with ErrDeviceIsClosed and change       *)
(* nothing, while the registration of a handler is not rejected: it        *)
(* registers the handler, or fails with the error of its own checks, as on *)
(* an open device.                                                         *)
(***************************************************************************)
C13_Step ==
  /\ C13_ResetStep
  /\ (WasReset /\ ~OpenStep /\ ~RunningStep) =>
       IF RegistrationStep THEN RegistrationOutcome ELSE RejectedStep

C13_NotOpen == WasReset => ~IsOpen /\ validateOpen = "ErrDeviceIsClosed"

C13_ResetThenIoRejected == [](C13_NotOpen) /\ [][C13_Step]_vars

\* the device was reset, a handler was registered and a write to a display
\* was then rejected
C13_Witness ==
  /\ WasReset
  /\ cpc = "none"
  /\ inputs # <<>> /\ Len(inputs[KeySlot(1)].handlers) > 0
  /\ lastCall = [op |-> "SetKeyColor", err |-> "ErrDeviceIsClosed", io |-> <<>>]

(***************************************************************************)
(* The operations one by one: a device of each shape, closed or opened,    *)
(* and single calls of the display operations and of the                   *)
(* registrations, with arguments below, inside and above the valid ranges. *)
(***************************************************************************)
\* identifiers of a control a model has count of: 0, the first, the last,
\* and the one after the last
IdArgs(count) == {0, 1, count, count + 1}

ImageArgs == {"nil", "img"}

ReaderArgs == {"nil", "garbage", "img"}

FileArgs == {"missing", "garbage", "img"}

\* rectangles: empty, inside the touch strip of the Plus, and one that
\* sticks out of it
RectArgs == {ZR, Rect(0, 0, 10, 10), Rect(700, 0, 801, 100)}

\* handlers registered on the device, over all controls
NumRegistered ==
  (IF inputs = <<>> THEN 0
   ELSE Len(inputs[KeySlot(1)].handlers) + Len(inputs[NumSlots].handlers))
  + (IF dialInputs = <<>> THEN 0
     ELSE Len(dialInputs[1].switchHandlers) + Len(dialInputs[1].rotateHandlers)
          + Len(dialInputs[dmodel.dialCount].switchHandlers)
          + Len(dialInputs[dmodel.dialCount].rotateHandlers))
  + Len(touchStripInput.touchHandlers) + Len(touchStripInput.swipeHandlers)

\* the registration of a function is explored while the device has fewer
\* than MaxRegistered handlers
RoomFor(fn) == fn # "nil" => NumRegistered < MaxRegistered

InitOps ==
  /\ pid \in DevicePids
  /\ open = FALSE
  /\ devOpen = FALSE
  /\ listen = 0
  /\ closedChans = {}
  /\ nextChan = 1
  /\ inputs = <<>>
  /\ keyStates = <<>>
  /\ now = 1
  /\ lpc = "none"
  /\ lret = "none"
  /\ cpc = "none"
  /\ cio = <<>>
  /\ tasks = <<>>
  /\ lastCall = [op |-> "none", err |-> "nil", io |-> <<>>]
  /\ nReports = 0
  /\ nOpens = 0
  /\ reg = noReg
  /\ dialStates = <<>>
  /\ query = noQuery
  /\ imgCall = noImgCall
  /\ lookup = noLookup
  /\ attached = <<usbDevice(elgatoVendorID, pid, "A")>>
  /\ walk = noWalk
  /\ lastReport = Zeros(NumSlots)
  /\ events = <<>>
  /\ send = noSend
  /\ errCh = noErrCh
  /\ dialInputs = <<>>
  /\ touchStripInput = noTouchStripInput

NextOps ==
  \/ \E ok \in BOOLEAN : Open(ok)
  \/ \E key \in IdArgs(dmodel.keyCount), img \in ImageArgs : SetKeyImage(key, img, TRUE)
  \/ \E key \in IdArgs(dmodel.keyCount), r \in ReaderArgs :
       SetKeyImageFromReader(key, r, TRUE)
  \/ \E key \in IdArgs(dmodel.keyCount), name \in FileArgs :
       SetKeyImageFromFile(key, name, TRUE)
  \/ \E key \in IdArgs(dmodel.keyCount), ok \in BOOLEAN : SetKeyColor(key, "red", ok)
  \/ \E key \in IdArgs(dmodel.keyCount) : ClearKey(key, TRUE)
  \/ \E tp \in IdArgs(dmodel.touchPointCount) : SetTouchPointColor(tp, "red", TRUE)
  \/ \E tp \in IdArgs(dmodel.touchPointCount) : ClearTouchPoint(tp, TRUE)
  \/ \E img \in ImageArgs : SetInfoBarImage(img, TRUE)
  \/ \E r \in ReaderArgs : SetInfoBarImageFromReader(r, TRUE)
  \/ \E name \in FileArgs : SetInfoBarImageFromFile(name, TRUE)
  \/ SetInfoBarColor("red", TRUE)
  \/ ClearInfoBar(TRUE)
  \/ \E img \in ImageArgs : SetTouchStripImage(img, TRUE)
  \/ \E img \in ImageArgs, rect \in RectArgs :
       SetTouchStripImageWithRectangle(img, rect, TRUE)
  \/ \E r \in ReaderArgs : SetTouchStripImageFromReader(r, TRUE)
  \/ \E r \in ReaderArgs, rect \in RectArgs :
       SetTouchStripImageFromReaderWithRectangle(r, rect, TRUE)
  \/ \E name \in FileArgs : SetTouchStripImageFromFile(name, TRUE)
  \/ \E name \in FileArgs, rect \in RectArgs :
       SetTouchStripImageFromFileWithRectangle(name, rect, TRUE)
  \/ SetTouchStripColor("red", TRUE)
  \/ \E rect \in RectArgs : SetTouchStripColorWithRectangle("red", rect, TRUE)
  \/ ClearTouchStrip(TRUE)
  \/ \E rect \in RectArgs : ClearTouchStripWithRectangle(rect, TRUE)
  \/ \E key \in IdArgs(dmodel.keyCount), fn \in HandlerArgs :
       RoomFor(fn) /\ AddKeyHandler(key, fn)
  \/ \E tp \in IdArgs(dmodel.touchPointCount), fn \in HandlerArgs :
       RoomFor(fn) /\ AddTouchPointHandler(tp, fn)
  \/ \E di \in IdArgs(dmodel.dialCount), fn \in HandlerArgs :
       RoomFor(fn) /\ AddDialSwitchHandler(di, fn)
  \/ \E di \in IdArgs(dmodel.dialCount), fn \in HandlerArgs :
       RoomFor(fn) /\ AddDialRotateHandler(di, fn)
  \/ \E fn \in HandlerArgs : RoomFor(fn) /\ AddTouchStripTouchHandler(fn)
  \/ \E fn \in HandlerArgs : RoomFor(fn) /\ AddTouchStripSwipeHandler(fn)

SpecOps == InitOps /\ [][NextOps]_vars

\* the operations on each surface
InfoBarOps ==
  {"SetInfoBarImage", "SetInfoBarImageFromReader", "SetInfoBarImageFromFile",
   "SetInfoBarColor", "ClearInfoBar"}

TouchPointOps == {"SetTouchPointColor", "ClearTouchPoint", "AddTouchPointHandler"}

TouchStripOps ==
  {"SetTouchStripImage", "SetTouchStripImageWithRectangle",
   "SetTouchStripImageFromReader", "SetTouchStripImageFromReaderWithRectangle",
   "SetTouchStripImageFromFile", "SetTouchStripImageFromFileWithRectangle",
   "SetTouchStripColor", "SetTouchStripColorWithRectangle",
   "ClearTouchStrip", "ClearTouchStripWithRectangle",
   "AddTouchStripTouchHandler", "AddTouchStripSwipeHandler"}

\* the last call failed with err and wrote nothing
FailedWith(err) == lastCall.err = err /\ lastCall.io = <<>>

(***************************************************************************)
(* C14: on an open device every info bar, touch point and touch strip      *)
(* operation (set image / color, clear, registration of a handler, the     *)
(* touch strip operations on a rectangle included) called on a model       *)
(* without that surface fails with the not-supported error of the surface  *)
(* and writes nothing to the transport.                                    *)
(***************************************************************************)
C14_UnsupportedRejected ==
  IsOpen =>
    /\ (lastCall.op \in InfoBarOps /\ ~dmodel.infoBar) =>
         FailedWith("ErrDeviceInfoBarNotSupported")
    /\ (lastCall.op \in TouchPointOps /\ dmodel.touchPointCount = 0) =>
         FailedWith("ErrDeviceTouchPointNotSupported")
    /\ (lastCall.op \in TouchStripOps /\ ~dmodel.touchStrip) =>
         FailedWith("ErrDeviceTouchStripNotSupported")

\* the identifiers outside the valid range of a control a model has count of
BadIds(count) == {id \in IdArgs(count) : id < 1 \/ id > count}

\* the step is a call, with identifier key, of a display operation on a key
KeyDisplayStep(key) ==
  \/ lastCall'.op = "SetKeyImage" /\ \E img \in ImageArgs : SetKeyImage(key, img, TRUE)
  \/ lastCall'.op = "SetKeyImageFromReader"
       /\ \E r \in ReaderArgs : SetKeyImageFromReader(key, r, TRUE)
  \/ lastCall'.op = "SetKeyImageFromFile"
       /\ \E name \in FileArgs : SetKeyImageFromFile(key, name, TRUE)
  \/ lastCall'.op = "SetKeyColor" /\ \E ok \in BOOLEAN : SetKeyColor(key, "red", ok)
  \/ lastCall'.op = "ClearKey" /\ ClearKey(key, TRUE)

\* ... of a registration on a key
KeyRegistrationStep(key) ==
  lastCall'.op = "AddKeyHandler" /\ \E fn \in HandlerArgs : AddKeyHandler(key, fn)

\* ... of a display operation on a touch point, of a registration on one
TouchPointDisplayStep(tp) ==
  \/ lastCall'.op = "SetTouchPointColor" /\ SetTouchPointColor(tp, "red", TRUE)
  \/ lastCall'.op = "ClearTouchPoint" /\ ClearTouchPoint(tp, TRUE)

TouchPointRegistrationStep(tp) ==
  lastCall'.op = "AddTouchPointHandler"
    /\ \E fn \in HandlerArgs : AddTouchPointHandler(tp, fn)

\* ... of a registration on a dial
DialRegistrationStep(di) ==
  \/ lastCall'.op = "AddDialSwitchHandler"
       /\ \E fn \in HandlerArgs : AddDialSwitchHandler(di, fn)
  \/ lastCall'.op = "AddDialRotateHandler"
       /\ \E fn \in HandlerArgs : AddDialRotateHandler(di, fn)

\* the operations that take the identifier of a control
IdOps ==
  {"SetKeyImage", "SetKeyImageFromReader", "SetKeyImageFromFile", "SetKeyColor",
   "ClearKey", "AddKeyHandler", "SetTouchPointColor", "ClearTouchPoint",
   "AddTouchPointHandler", "AddDialSwitchHandler", "AddDialRotateHandler"}

\* the call fails with err, writes nothing and leaves every handler list
RejectedWith(err) ==
  /\ lastCall'.err = err
  /\ lastCall'.io = <<>>
  /\ UNCHANGED <<inputs, dialInputs, touchStripInput>>

(***************************************************************************)
(* C15: a key, touch point or dial identifier outside the valid range of   *)
(* the model (0, or greater than the model's count of that control) is     *)
(* rejected with the invalid-identifier error of the control by every      *)
(* operation that takes it (the display operations, on an open device, and *)
(* the registrations), with no transport write and no change to a handler  *)
(* list.                                                                   *)
(***************************************************************************)
C15_AllStep ==
  lastCall'.op \in IdOps =>
    /\ \A key \in BadIds(dmodel.keyCount) :
         ((IsOpen /\ KeyDisplayStep(key)) \/ KeyRegistrationStep(key)) =>
           RejectedWith("ErrKeyInvalid")
    /\ \A tp \in BadIds(dmodel.touchPointCount) :
         ((IsOpen /\ TouchPointDisplayStep(tp)) \/ TouchPointRegistrationStep(tp)) =>
           RejectedWith("ErrTouchPointInvalid")
    /\ \A di \in BadIds(dmodel.dialCount) :
         DialRegistrationStep(di) => RejectedWith("ErrDialInvalid")

C15_InvalidIdRejected == [][C15_AllStep]_vars

(***************************************************************************)
(* C15, as the code has it: a key or dial identifier outside the valid     *)
(* range of the model is rejected with ErrKeyInvalid / ErrDialInvalid by   *)
(* every operation that takes it, and so is a touch point identifier, with *)
(* ErrTouchPointInvalid, on a model that has touch points; on a model      *)
(* without touch points every touch point identifier is rejected with      *)
(* ErrDeviceTouchPointNotSupported instead.  In every case nothing is      *)
(* written to the transport and no handler list changes.                   *)
(***************************************************************************)
C15_Step ==
  lastCall'.op \in IdOps =>
    /\ \A key \in BadIds(dmodel.keyCount) :
         ((IsOpen /\ KeyDisplayStep(key)) \/ KeyRegistrationStep(key)) =>
           RejectedWith("ErrKeyInvalid")
    /\ \A tp \in BadIds(dmodel.touchPointCount) :
         ((IsOpen /\ TouchPointDisplayStep(tp)) \/ TouchPointRegistrationStep(tp)) =>
           RejectedWith(IF dmodel.touchPointCount = 0
                          THEN "ErrDeviceTouchPointNotSupported"
                          ELSE "ErrTouchPointInvalid")
    /\ \A di \in BadIds(dmodel.dialCount) :
         DialRegistrationStep(di) => RejectedWith("ErrDialInvalid")

C15_InvalidIdRejectedOrUnsupported == [][C15_Step]_vars

\* on an open Plus with a handler on its first dial, a registration on a
\* dial that does not exist has been rejected
C15_Witness ==
  /\ IsOpen
  /\ dmodel.dialCount > 0
  /\ dialInputs # <<>> /\ Len(dialInputs[1].rotateHandlers) > 0
  /\ lastCall = [op |-> "AddDialRotateHandler", err |-> "ErrDialInvalid", io |-> <<>>]

\* the handler lists of the device, by name
ListNames == {"key", "touchPoint", "dialSwitch", "dialRotate", "touch", "swipe"}

\* the lists of name l, one per control: those of an unallocated table or
\* slot are empty
HandlerLists(l) ==
  CASE l = "key" ->
         [i \in 1..dmodel.keyCount |->
            IF inputs = <<>> THEN <<>> ELSE inputs[KeySlot(i)].handlers]
    [] l = "touchPoint" ->
         [i \in 1..dmodel.touchPointCount |->
            IF inputs = <<>> THEN <<>> ELSE inputs[TouchPointSlot(i)].handlers]
    [] l = "dialSwitch" ->
         [i \in 1..dmodel.dialCount |->
            IF dialInputs = <<>> THEN <<>> ELSE dialInputs[i].switchHandlers]
    [] l = "dialRotate" ->
         [i \in 1..dmodel.dialCount |->
            IF dialInputs = <<>> THEN <<>> ELSE dialInputs[i].rotateHandlers]
    [] l = "touch" -> <<touchStripInput.touchHandlers>>
    [] l = "swipe" -> <<touchStripInput.swipeHandlers>>

\* some handler list, or the allocation of a table, changes
ListsChange == inputs' # inputs \/ dialInputs' # dialInputs \/ touchStripInput' # touchStripInput

\* fn is appended to list l of control i and no other list changes
AppendedTo(l, i, fn) ==
  /\ HandlerLists(l)'[i] = Append(HandlerLists(l)[i], fn)
  /\ \A m \in ListNames :
       \A j \in 1..Len(HandlerLists(m)) :
         (m # l \/ j # i) => HandlerLists(m)'[j] = HandlerLists(m)[j]

\* the operation that registers on list l
RegistrationOp(l) ==
  CASE l = "key" -> "AddKeyHandler"
    [] l = "touchPoint" -> "AddTouchPointHandler"
    [] l = "dialSwitch" -> "AddDialSwitchHandler"
    [] l = "dialRotate" -> "AddDialRotateHandler"
    [] l = "touch" -> "AddTouchStripTouchHandler"
    [] l = "swipe" -> "AddTouchStripSwipeHandler"

\* the step is a registration of fn on control i of list l (the touch strip
\* is control 1 of its lists)
RegistrationOf(l, i, fn) ==
  CASE l = "key" -> AddKeyHandler(i, fn)
    [] l = "touchPoint" -> AddTouchPointHandler(i, fn)
    [] l = "dialSwitch" -> AddDialSwitchHandler(i, fn)
    [] l = "dialRotate" -> AddDialRotateHandler(i, fn)
    [] l = "touch" -> AddTouchStripTouchHandler(fn)
    [] l = "swipe" -> AddTouchStripSwipeHandler(fn)

HandlerInvalid(l) ==
  CASE l = "key" -> "ErrKeyHandlerInvalid"
    [] l = "touchPoint" -> "ErrTouchPointHandlerInvalid"
    [] l \in {"dialSwitch", "dialRotate"} -> "ErrDialHandlerInvalid"
    [] l \in {"touch", "swipe"} -> "ErrTouchStripHandlerInvalid"

\* control i of list l exists on the model
ValidControl(l, i) ==
  CASE l = "key" -> i \in 1..dmodel.keyCount
    [] l = "touchPoint" -> i \in 1..dmodel.touchPointCount
    [] l \in {"dialSwitch", "dialRotate"} -> i \in 1..dmodel.dialCount
    [] l \in {"touch", "swipe"} -> dmodel.touchStrip /\ i = 1

\* the identifiers a registration on list l is called with
ControlArgs(l) ==
  CASE l = "key" -> IdArgs(dmodel.keyCount)
    [] l = "touchPoint" -> IdArgs(dmodel.touchPointCount)
    [] l \in {"dialSwitch", "dialRotate"} -> IdArgs(dmodel.dialCount)
    [] l \in {"touch", "swipe"} -> {1}

(***************************************************************************)
(* C16: the registration of a nil handler (key, touch point, dial switch,  *)
(* dial rotate, touch strip touch, touch strip swipe) fails and leaves     *)
(* every handler list unchanged, with the handler-invalid error of the     *)
(* control when the control itself is accepted; a non-nil handler          *)
(* registered for a valid control is appended to the list of that control, *)
(* no other list changes, and no step ever removes a handler from a list.  *)
(***************************************************************************)
C16_Step ==
  /\ \A l \in ListNames :
       lastCall'.op = RegistrationOp(l) =>
         \A i \in ControlArgs(l) :
           /\ RegistrationOf(l, i, "nil") =>
                /\ lastCall'.err # "nil"
                /\ lastCall'.io = <<>>
                /\ ~ListsChange
                /\ ValidControl(l, i) => lastCall'.err = HandlerInvalid(l)
           /\ (ValidControl(l, i) /\ RegistrationOf(l, i, "wait")) =>
                /\ lastCall'.err = "nil"
                /\ AppendedTo(l, i, "wait")
  /\ ListsChange =>
       \A l \in ListNames :
         \A i \in 1..Len(HandlerLists(l)) :
           /\ Len(HandlerLists(l)'[i]) >= Len(HandlerLists(l)[i])
           /\ SubSeq(HandlerLists(l)'[i], 1, Len(HandlerLists(l)[i])) = HandlerLists(l)[i]

ForEachOps == {"ForEachKey", "ForEachTouchPoint", "ForEachDial"}

\* the callbacks a call of op is explored with
Callbacks(op) ==
  {nilCallback} \cup {callback({f, g} \ {0}) : f, g \in 0..forEachCount(op)}

InitWalk ==
  /\ pid \in ProductIds
  /\ open = FALSE
  /\ devOpen = FALSE
  /\ listen = 0
  /\ closedChans = {}
  /\ nextChan = 1
  /\ inputs = <<>>
  /\ keyStates = <<>>
  /\ now = 1
  /\ lpc = "none"
  /\ lret = "none"
  /\ cpc = "none"
  /\ cio = <<>>
  /\ tasks = <<>>
  /\ lastCall = [op |-> "none", err |-> "nil", io |-> <<>>]
  /\ nReports = 0
  /\ nOpens = 0
  /\ reg = noReg
  /\ dialStates = <<>>
  /\ query = noQuery
  /\ imgCall = noImgCall
  /\ lookup = noLookup
  /\ attached = <<usbDevice(elgatoVendorID, pid, "A")>>
  /\ walk = noWalk
  /\ lastReport = Zeros(NumSlots)
  /\ events = <<>>
  /\ send = noSend
  /\ errCh = noErrCh
  /\ dialInputs = <<>>
  /\ touchStripInput = noTouchStripInput

NextWalk ==
  \/ \E op \in ForEachOps : \E cb \in Callbacks(op) : ForEachStart(op, cb)
  \/ ForEachTurn

SpecWalk == InitWalk /\ [][NextWalk]_vars

\* the identifiers of 1..count the callback of the walk fails for
WalkFailing == walk.cb.fails \cap (1..forEachCount(walk.op))

\* the first of them
FirstFailing == CHOOSE f \in WalkFailing : \A g \in WalkFailing : f <= g

\* the calls made so far are those for 1, 2, 3, ... in this order
VisitedAscending == \A n \in 1..Len(walk.visited) : walk.visited[n] = n

\* C17: ForEachKey, ForEachTouchPoint and ForEachDial call a non-nil callback
\* for the identifiers 1, 2, ... of the model in ascending order, each once;
\* a walk whose callback fails for no identifier of the model returns nil
\* after calling it for every one of 1..count, and a walk whose callback
\* fails returns the error of the first failing identifier, with that call
\* the last one made.
C17_AscendingOnceStopAtFirstError ==
  walk.pc \in {"loop", "returned"} /\ ~walk.cb.nil =>
    /\ VisitedAscending
    /\ Len(walk.visited) <= forEachCount(walk.op)
    /\ walk.pc = "loop" =>
         /\ walk.id = Len(walk.visited) + 1
         /\ \A n \in 1..Len(walk.visited) : n \notin walk.cb.fails
    /\ walk.pc = "returned" /\ WalkFailing = {} =>
         /\ walk.ret = "nil"
         /\ Len(walk.visited) = forEachCount(walk.op)
    /\ walk.pc = "returned" /\ WalkFailing # {} =>
         /\ walk.ret = cbErr(FirstFailing)
         /\ Len(walk.visited) = FirstFailing

\* a walk over several controls stopped by the first of two failing
\* identifiers, before the last control of the model
C17_Witness ==
  /\ walk.pc = "returned"
  /\ Cardinality(WalkFailing) = 2
  /\ walk.ret = cbErr(FirstFailing)
  /\ FirstFailing > 1
  /\ Len(walk.visited) = FirstFailing
  /\ Len(walk.visited) < forEachCount(walk.op) - 1

(***************************************************************************)
(* Brightness: a device that is opened, reset and given every byte as its  *)
(* brightness.                                                             *)
(***************************************************************************)
\* perc is a byte
BrightnessArgs == 0..(Byte - 1)

NextBrightness ==
  \/ \E ok \in BOOLEAN : Open(ok)
  \/ \E ok \in BOOLEAN : Reset(ok)
  \/ \E perc \in BrightnessArgs : SetBrightness(perc, TRUE)

SpecBrightness == InitOps /\ [][NextBrightness]_vars

\* the percentage the device is to be given for perc
Clamped(perc) == IF perc < 100 THEN perc ELSE 100

\* a call of SetBrightness with perc
BrightnessStep(perc) == lastCall'.op = "SetBrightness" /\ SetBrightness(perc, TRUE)

C18_Step ==
  \A perc \in BrightnessArgs :
    BrightnessStep(perc) =>
      IF open /\ devOpen
        THEN /\ lastCall'.io = << <<"brightness", Clamped(perc), "">> >>
             /\ lastCall'.err = "nil"
        ELSE /\ lastCall'.io = <<>>
             /\ lastCall'.err = "ErrDeviceIsClosed"

\* C18: SetBrightness on an open device sends min(perc, 100) as the
\* percentage, for every byte perc, and on a device that is not open (never
\* opened, or reset) it fails with ErrDeviceIsClosed and sends nothing.
C18_BrightnessClampedOrClosed == [][C18_Step]_vars

\* the percentage 100 was sent to a device that had been reset and opened
\* again
C18_Witness ==
  /\ open /\ devOpen
  /\ nOpens > 1
  /\ lastCall = [op |-> "SetBrightness", err |-> "nil",
                 io |-> << <<"brightness", 100, "">> >>]

(***************************************************************************)
(* The registry and the bus: devices of the known vendor and of another,   *)
(* with product ids of the registry, an alias and an unknown one, are      *)
(* plugged in one after the other; getModel is called with every pair of   *)
(* ids, GetDevice with the empty serial number, two serial numbers that    *)
(* are on the bus and one that is not.                                     *)
(***************************************************************************)
VendorArgs == {elgatoVendorID, elgatoVendorID + 1, 0}

ProductArgs == ProductIds \cup {0, 155}

SerialArgs == {"", "A", "B", "C"}

\* two devices share the serial number "B"; one has none
BusDevices ==
  {usbDevice(elgatoVendorID, 99, "A"), usbDevice(elgatoVendorID, 109, "B"),
   usbDevice(elgatoVendorID, 128, "B"), usbDevice(elgatoVendorID, 132, ""),
   usbDevice(elgatoVendorID, 155, "A"), usbDevice(elgatoVendorID + 1, 99, "A")}

\* nothing is plugged in and no Device has been made: pid is not read
InitRegistry ==
  /\ pid = 99
  /\ open = FALSE
  /\ devOpen = FALSE
  /\ listen = 0
  /\ closedChans = {}
  /\ nextChan = 1
  /\ inputs = <<>>
  /\ keyStates = <<>>
  /\ now = 1
  /\ lpc = "none"
  /\ lret = "none"
  /\ cpc = "none"
  /\ cio = <<>>
  /\ tasks = <<>>
  /\ lastCall = [op |-> "none", err |-> "nil", io |-> <<>>]
  /\ nReports = 0
  /\ nOpens = 0
  /\ reg = noReg
  /\ dialStates = <<>>
  /\ query = noQuery
  /\ imgCall = noImgCall
  /\ lookup = noLookup
  /\ attached = <<>>
  /\ walk = noWalk
  /\ lastReport = Zeros(NumSlots)
  /\ events = <<>>
  /\ send = noSend
  /\ errCh = noErrCh
  /\ dialInputs = <<>>
  /\ touchStripInput = noTouchStripInput

NextRegistry ==
  \/ \E dev \in BusDevices : Attach(dev)
  \/ \E vendor \in VendorArgs, product \in ProductArgs : GetModel(vendor, product)
  \/ \E serialNumber \in SerialArgs : GetDevice(serialNumber)

SpecRegistry == InitRegistry /\ [][NextRegistry]_vars

\* C19: getModel with the known vendor and a product id that is neither a
\* key of the registry nor an alias fails with the device-not-supported
\* error; with an alias it returns what it returns for the id the alias
\* stands for, the same entry of the registry; with any other vendor it
\* fails, whatever the product id.
C19_UnknownRejectedAliasResolved ==
  lookup.op = "getModel" =>
    LET vendor == lookup.arg[1]
        product == lookup.arg[2]
    IN  /\ vendor # elgatoVendorID =>
             /\ lookup.err = "ErrDeviceEnumerationFailed"
             /\ lookup.model = 0
        /\ vendor = elgatoVendorID /\ product \notin DOMAIN models
             /\ product \notin DOMAIN modelAliases =>
             /\ lookup.err = "ErrDeviceEnumerationFailed"
             /\ lookup.msg = "device not supported"
             /\ lookup.model = 0
        /\ vendor = elgatoVendorID /\ product \in DOMAIN modelAliases =>
             /\ lookup.err = getModel(vendor, modelAliases[product]).err
             /\ lookup.model = getModel(vendor, modelAliases[product]).ref
             /\ lookup.model = modelAliases[product]
        /\ vendor = elgatoVendorID /\ product \in DOMAIN models =>
             /\ lookup.err = "nil"
             /\ lookup.model = product

\* getModel resolved the alias to the entry of the id it stands for
C19_Witness ==
  /\ lookup.op = "getModel"
  /\ lookup.arg[1] = elgatoVendorID
  /\ lookup.arg[2] \in DOMAIN modelAliases
  /\ lookup.err = "nil"
  /\ lookup.model = modelAliases[lookup.arg[2]]

\* the places of the supported devices on the bus
Supported == {n \in 1..Len(attached) : enumerateFunc(attached[n])}

\* the places of the supported devices with this serial number
WithSerial(serialNumber) == {n \in Supported : attached[n].serial = serialNumber}

C20_Step ==
  \A serialNumber \in SerialArgs :
    GetDevice(serialNumber) =>
      /\ lookup'.err = "nil" <=> lookup'.dev # 0
      /\ serialNumber = "" =>
           /\ Cardinality(Supported) = 0 => lookup'.err = "ErrNoDeviceFound"
           /\ Cardinality(Supported) = 1 =>
                lookup'.err = "nil" /\ lookup'.dev \in Supported
           /\ Cardinality(Supported) > 1 => lookup'.err = "ErrMoreThanOneDeviceFound"
      /\ serialNumber # "" =>
           /\ WithSerial(serialNumber) = {} => lookup'.err = "ErrNoDeviceFound"
           /\ WithSerial(serialNumber) # {} =>
                lookup'.err = "nil" /\ lookup'.dev \in WithSerial(serialNumber)

\* C20: GetDevice with the empty serial number returns the one supported
\* device of the bus when there is exactly one, fails with
\* ErrMoreThanOneDeviceFound when there are several and with
\* ErrNoDeviceFound when there is none; with a serial number it returns a
\* supported device that has it, and fails with ErrNoDeviceFound when no
\* supported device has it.
C20_GetDeviceBySerial == [][C20_Step]_vars

\* the empty serial number found the one supported device among the three
\* on the bus
C20_Witness ==
  /\ lookup.op = "GetDevice"
  /\ lookup.arg = <<"">>
  /\ lookup.err = "nil"
  /\ Len(attached) = 3
  /\ Supported = {lookup.dev}
  /\ lookup.dev > 1

(***************************************************************************)
(* Letterboxing: getScaledRect called with sources and targets of several  *)
(* shapes, the targets at the origin and away from it.                     *)
(***************************************************************************)
SrcSides == {1, 5, 7, 9, 10, 49}

DstSides == {5, 20, 49, 72}

DstOrigins == {<<0, 0>>, <<3, 7>>}

SrcRects == {Rect(0, 0, w, h) : w, h \in SrcSides}

DstRects == {Rect(o[1], o[2], o[1] + w, o[2] + h) : o \in DstOrigins, w, h \in DstSides}

\* no Device has been made (pid is not read), and a function of image.go has
\* been called
InitImage ==
  /\ pid = 99
  /\ open = FALSE
  /\ devOpen = FALSE
  /\ listen = 0
  /\ closedChans = {}
  /\ nextChan = 1
  /\ inputs = <<>>
  /\ keyStates = <<>>
  /\ now = 1
  /\ lpc = "none"
  /\ lret = "none"
  /\ cpc = "none"
  /\ cio = <<>>
  /\ tasks = <<>>
  /\ lastCall = [op |-> "none", err |-> "nil", io |-> <<>>]
  /\ nReports = 0
  /\ nOpens = 0
  /\ reg = noReg
  /\ dialStates = <<>>
  /\ query = noQuery
  /\ imgCall.pc = "running"
  /\ lookup = noLookup
  /\ attached = <<>>
  /\ walk = noWalk
  /\ lastReport = Zeros(NumSlots)
  /\ events = <<>>
  /\ send = noSend
  /\ errCh = noErrCh
  /\ dialInputs = <<>>
  /\ touchStripInput = noTouchStripInput

InitScaledRect ==
  /\ imgCall \in {imgCallOf("getScaledRect", <<src, dst>>) :
                    src \in SrcRects, dst \in DstRects}
  /\ InitImage

NextScaledRect == GetScaledRect

SpecScaledRect == InitScaledRect /\ [][NextScaledRect]_vars

\* the rectangle the fitting rule gives in exact arithmetic: the whole width
\* of dst and the height floor(dst.width / (src.width / src.height)), centred
\* vertically, when src is wider in proportion than dst; otherwise the whole
\* height and the width floor(dst.height * (src.width / src.height)),
\* centred horizontally
Letterbox(src, dst) ==
  IF Dx(src) * Dy(dst) > Dx(dst) * Dy(src)
    THEN LET h == (Dx(dst) * Dy(src)) \div Dx(src)
             top == dst.minY + (Dy(dst) - h) \div 2
         IN  Rect(dst.minX, top, dst.maxX, top + h)
    ELSE LET w == (Dy(dst) * Dx(src)) \div Dy(src)
             left == dst.minX + (Dx(dst) - w) \div 2
         IN  Rect(left, dst.minY, left + w, dst.maxY)

\* C23: getScaledRect(src, dst) returns the full-width rectangle of height
\* floor(dst.width / srcRatio) centred vertically in dst when src is wider in
\* proportion than dst, and otherwise the full-height rectangle of width
\* floor(dst.height * srcRatio) centred horizontally.
C23_ScaledRectIsLetterbox ==
  imgCall.fn = "getScaledRect" /\ imgCall.pc = "returned" =>
    imgCall.ret = Letterbox(imgCall.args[1], imgCall.args[2])

\* the example of the test: a 10x5 source in a 20x20 target gives
\* (0,5)-(20,15)
C23_Example ==
  imgCall.fn = "getScaledRect" /\ imgCall.pc = "returned"
    /\ imgCall.args = <<Rect(0, 0, 10, 5), Rect(0, 0, 20, 20)>> =>
    imgCall.ret = Rect(0, 5, 20, 15)

(***************************************************************************)
(* Generating images: genImage called with no image, with images of the    *)
(* size of the target and of another size, with square, oblong and empty   *)
(* targets, the two formats and one that is none, and every transform.     *)
(***************************************************************************)
GenImages ==
  {nilImage, newImage(Rect(0, 0, 3, 3), FALSE), newImage(Rect(0, 0, 2, 3), FALSE),
   newImage(Rect(0, 0, 4, 2), TRUE)}

GenRects == {Rect(0, 0, 3, 3), Rect(0, 0, 2, 3), Rect(0, 0, 0, 3), ZR}

GenFormats == {imageFormatBMP, imageFormatJPEG, imageFormatJPEG + 1}

GenTransforms ==
  0..(imageTransformFlipVertical + imageTransformFlipHorizontal + imageTransformRotate90)

InitGenImage ==
  /\ imgCall \in {imgCallOf("genImage", <<img, rect, ifmt, transform>>) :
                    img \in GenImages, rect \in GenRects, ifmt \in GenFormats,
                    transform \in GenTransforms}
  /\ InitImage

NextGenImage == GenImage

SpecGenImage == InitGenImage /\ [][NextGenImage]_vars

GenImageReturned == imgCall.fn = "genImage" /\ imgCall.pc = "returned"

\* C21: genImage with the rotate-90 bit set and a target rectangle that is
\* not square fails with ErrImageInvalid, whatever the image, the format and
\* the other bits of the transform.
C21_NonSquareRotateRejected ==
  GenImageReturned
    /\ hasTransform(imgCall.args[4], imageTransformRotate90)
    /\ Dx(imgCall.args[2]) # Dy(imgCall.args[2]) =>
    imgCall.ret.err = "ErrImageInvalid"

\* the call was given an image with pixels of its own, of the size of the
\* target, and the transform t, and it returned bytes
Transformed(t) ==
  /\ GenImageReturned
  /\ imgCall.ret.err = "nil"
  /\ ~imgCall.args[1].uniform
  /\ Dx(imgCall.args[1].bounds) = Dx(imgCall.args[2])
  /\ Dy(imgCall.args[1].bounds) = Dy(imgCall.args[2])
  /\ imgCall.args[4] = t

\* the pixel of the encoded image at (x, y) is the pixel (sx, sy) of the source
LandsAt(sx, sy, x, y) == imgCall.ret.data[<<x, y>>].c = colour("pixel", sx, sy)

\* C22: with W and H the width and height of the canvas, the flip-horizontal
\* bit alone sends the pixel (x, y) to (W-1-x, y), the flip-vertical bit
\* alone to (x, H-1-y), the rotate-90 bit alone, on a square canvas, to
\* (y, W-1-x); with no bit set the pixel stays at (x, y).
C22_TransformRemapsPixels ==
  LET W == Dx(imgCall.args[2])
      H == Dy(imgCall.args[2])
  IN  /\ Transformed(0) =>
           \A p \in rectPoints(imgCall.args[2]) : LandsAt(p[1], p[2], p[1], p[2])
      /\ Transformed(imageTransformFlipHorizontal) =>
           \A p \in rectPoints(imgCall.args[2]) : LandsAt(p[1], p[2], W - 1 - p[1], p[2])
      /\ Transformed(imageTransformFlipVertical) =>
           \A p \in rectPoints(imgCall.args[2]) : LandsAt(p[1], p[2], p[1], H - 1 - p[2])
      /\ Transformed(imageTransformRotate90) /\ W = H =>
           \A p \in rectPoints(imgCall.args[2]) : LandsAt(p[1], p[2], p[2], W - 1 - p[1])

\* a rotated image of 3 by 3: the top-left pixel of the source is in the
\* bottom-left corner
C22_Witness ==
  /\ Transformed(imageTransformRotate90)
  /\ imgCall.args[2] = Rect(0, 0, 3, 3)
  /\ LandsAt(0, 0, 0, 2)

(***************************************************************************)
(* Capabilities: devices of every product id of the registry and of its    *)
(* alias table are plugged in, found and queried.                          *)
(***************************************************************************)
CapDevices == BusDevices \cup {usbDevice(elgatoVendorID, 154, "C")}

NextCapabilities ==
  \/ \E dev \in CapDevices : Attach(dev)
  \/ \E vendor \in VendorArgs, product \in ProductArgs : GetModel(vendor, product)
  \/ \E serialNumber \in SerialArgs : GetDevice(serialNumber)
  \/ GetModelID
  \/ GetKeyCount
  \/ GetTouchPointCount
  \/ GetDialCount
  \/ GetInfoBarSupported
  \/ GetTouchStripSupported

SpecCapabilities == InitRegistry /\ [][NextCapabilities]_vars

\* the table of supported devices of the README, by product id
SupportedDevices ==
  [p \in {99, 109, 128, 132, 154} |->
     CASE p = 99  -> [keys |-> 6, touchPoints |-> 0, dials |-> 0, infoBar |-> FALSE,
                      touchStrip |-> FALSE]
       [] p = 109 -> [keys |-> 15, touchPoints |-> 0, dials |-> 0, infoBar |-> FALSE,
                      touchStrip |-> FALSE]
       [] p = 128 -> [keys |-> 15, touchPoints |-> 0, dials |-> 0, infoBar |-> FALSE,
                      touchStrip |-> FALSE]
       [] p = 132 -> [keys |-> 8, touchPoints |-> 0, dials |-> 4, infoBar |-> FALSE,
                      touchStrip |-> TRUE]
       [] p = 154 -> [keys |-> 8, touchPoints |-> 2, dials |-> 0, infoBar |-> TRUE,
                      touchStrip |-> FALSE]]

PressesOf(i, ch, k) ==
  {j \in 1..(k - 1) :
     events[j].ev = "press" /\ events[j].slot = i /\ events[j].ch = ch}

\* the places before k of the history where something happened to slot i
EarlierOn(i, k) == {j \in 1..(k - 1) : events[j].slot = i}

\* C25: every release closes a channel that a press of the same slot made
\* (never the nil channel of a slot that has seen no press), the channel of
\* the last press of the slot, and no release before it closed that channel.
C25_ReleaseClosesPressChannelOnce ==
  \A k \in 1..Len(events) :
    events[k].ev = "release" =>
      /\ events[k].ch # 0
      /\ PressesOf(events[k].slot, events[k].ch, k) # {}
      /\ \A j \in EarlierOn(events[k].slot, k) :
           (\A l \in EarlierOn(events[k].slot, k) : l <= j) =>
             events[j].ev = "press" /\ events[j].ch = events[k].ch
      /\ \A j \in 1..(k - 1) : events[j].ev = "release" => events[j].ch # events[k].ch

(***************************************************************************)
(* Slots: handlers are registered, and input.press and input.release are   *)
(* called on the slots of the table in any order while the handlers run.   *)
(***************************************************************************)
NextSlot ==
  \/ ~Crashed /\ \E key \in ActiveKeys, fn \in HandlerKinds : AddKeyHandler(key, fn)
  \/ ~Crashed /\ \E tp \in ActiveTouchPoints, fn \in HandlerKinds :
                    AddTouchPointHandler(tp, fn)
  \/ \E i \in ActiveSlots, dt \in Ticks : InputPress(i, dt)
  \/ \E i \in ActiveSlots, dt \in Ticks : InputRelease(i, dt)
  \/ ~Crashed /\ \E k \in 1..Len(tasks) : TaskWait(k)
  \/ ~Crashed /\ \E k \in 1..Len(tasks) : TaskWake(k)
  \/ ~Crashed /\ \E k \in 1..Len(tasks) : TaskReturn(k)

SpecSlot == InitInput /\ [][NextSlot]_vars

C26_Step ==
  \A i \in ActiveSlots, dt \in Ticks :
    InputRelease(i, dt) /\ inputs[i].released # 0 =>
      /\ inputs'[i].released = inputs[i].released
      /\ inputs'[i].duration = inputs[i].duration
      /\ inputs'[i].channel = inputs[i].channel
      /\ inputs' = inputs
      /\ closedChans' = closedChans
      /\ events' = events
      /\ ~Crashed'

\* C26: input.release on a slot whose release is already recorded changes
\* none of the release time, the duration and the channel of the slot (nor
\* anything else of the table), closes no channel and does not panic.
C26_ReleaseIdempotent == [][C26_Step]_vars

\* release was called on a slot that had been released before the call: the
\* release time of the slot is older than the call
C26_Witness ==
  /\ lastCall.op = "input.release"
  /\ inputs[lastCall.io[1]].released # 0
  /\ inputs[lastCall.io[1]].released < now
  /\ inputs[lastCall.io[1]].channel \in closedChans
  /\ ~Crashed

(***************************************************************************)
(* Reports of every kind on models that have neither a touch strip nor     *)
(* dials, and reports that come with another report id.                    *)
(***************************************************************************)
\* the MK.2 and the Neo: the report kind is byte 0, the keys start at byte 3
UnknownPids == {128, 154}

\* the Device after a successful Open
InitUnknown ==
  /\ pid \in UnknownPids
  /\ open = TRUE
  /\ devOpen = TRUE
  /\ listen = 1
  /\ closedChans = {}
  /\ nextChan = 2
  /\ inputs = <<>>
  /\ keyStates = <<>>
  /\ now = 1
  /\ lpc = "none"
  /\ lret = "none"
  /\ cpc = "none"
  /\ cio = <<>>
  /\ tasks = <<>>
  /\ lastCall = [op |-> "Open", err |-> "nil", io |-> << <<"devOpen", 1, "">> >>]
  /\ nReports = 0
  /\ nOpens = 1
  /\ reg = noReg
  /\ dialStates = <<>>
  /\ query = noQuery
  /\ imgCall = noImgCall
  /\ lookup = noLookup
  /\ attached = <<usbDevice(elgatoVendorID, pid, "A")>>
  /\ walk = noWalk
  /\ touchStripInput = noTouchStripInput
  /\ dialInputs = <<>>
  /\ errCh = noErrCh
  /\ lastReport = Zeros(NumSlots)
  /\ events = <<>>
  /\ send = noSend

\* the report ids GetInputReport returns: the one Listen expects and another
ReportIds == {1, 2}

\* the kinds of report: keys, touch strip, dials, and one that is none
ReportKinds == {1, 2, 3, 4}

\* a report of this kind with b3 at byte 3 (the sub-type of a touch strip or
\* dial report, the first key of a key report) and 0 elsewhere
mkKindReport(kind, b3) ==
  [k \in 1..BufLen |-> IF k = 1 THEN kind ELSE IF k = 4 THEN b3 ELSE 0]

KindReports == {mkKindReport(kind, b3) : kind \in ReportKinds, b3 \in {0, 1}}

NextUnknown ==
  \/ ~Crashed /\ AddKeyHandler(1, "block")
  \/ ListenStart
  \/ ListenSelect
  \/ ListenNilCheck
  \/ ListenReadFail
  \/ \E id \in ReportIds, buf \in KindReports, dt \in Ticks : ListenRead(id, buf, dt)

SpecUnknown == InitUnknown /\ [][NextUnknown]_vars

\* the report is none the device is known to send: it has another report id,
\* or its kind is none of keys, touch strip and dials, or the model has not
\* what its kind is about
Unrecognized(id, buf) ==
  \/ id # 1
  \/ at(buf, 0) \notin {1, 2, 3}
  \/ at(buf, 0) = 2 /\ ~dmodel.touchStrip
  \/ at(buf, 0) = 3 /\ dmodel.dialCount = 0

C27_Step ==
  \A id \in ReportIds, buf \in KindReports, dt \in Ticks :
    ListenRead(id, buf, dt) /\ Unrecognized(id, buf) =>
      /\ events' = events
      /\ tasks' = tasks
      /\ lpc' = "select"
      /\ lret' = lret

\* C27: a report that is none of the recognized kinds, or whose kind the
\* model has no capability for (kind 2 without a touch strip, kind 3 without
\* dials), or that has another report id than the expected one, dispatches
\* nothing (no press, release, rotate, touch or swipe, no handler started)
\* and Listen goes on without an error.
C27_UnrecognizedIgnored == [][C27_Step]_vars

(***************************************************************************)
(* The touch strip reports of the Stream Deck Plus.                        *)
(***************************************************************************)
\* the model with a touch strip and dials
PlusPids == {132}

\* the Device after a successful Open
InitPlus ==
  /\ pid \in PlusPids
  /\ open = TRUE
  /\ devOpen = TRUE
  /\ listen = 1
  /\ closedChans = {}
  /\ nextChan = 2
  /\ inputs = <<>>
  /\ keyStates = <<>>
  /\ now = 1
  /\ lpc = "none"
  /\ lret = "none"
  /\ cpc = "none"
  /\ cio = <<>>
  /\ tasks = <<>>
  /\ lastCall = [op |-> "Open", err |-> "nil", io |-> << <<"devOpen", 1, "">> >>]
  /\ nReports = 0
  /\ nOpens = 1
  /\ reg = noReg
  /\ dialStates = <<>>
  /\ query = noQuery
  /\ imgCall = noImgCall
  /\ lookup = noLookup
  /\ attached = <<usbDevice(elgatoVendorID, pid, "A")>>
  /\ walk = noWalk
  /\ touchStripInput = noTouchStripInput
  /\ dialInputs = <<>>
  /\ errCh = noErrCh
  /\ lastReport = Zeros(NumSlots)
  /\ events = <<>>
  /\ send = noSend

\* lengths of the buffer around the two minimum lengths Listen tests
TouchLens == {8, 9, 12, 13}

\* the sub-types of a touch strip report: 1, 2, 3 and two that are none
TouchSubTypes == 0..4

\* a touch strip report of len bytes: sub-type at byte 3, and eight bytes
\* from byte 5 on that all differ, so that the order of a byte pair shows
mkTouch(sub, len, c) ==
  [k \in 1..len |-> IF k = 1 THEN 2 ELSE IF k = 4 THEN sub
                    ELSE IF k >= 6 THEN k - 5 + c ELSE 0]

TouchReports == {mkTouch(sub, len, c) : sub \in TouchSubTypes, len \in TouchLens, c \in {0, 1}}

NextTouch ==
  \/ ~Crashed /\ NumRegistered < MaxRegistered /\ AddTouchStripTouchHandler("block")
  \/ ~Crashed /\ NumRegistered < MaxRegistered /\ AddTouchStripSwipeHandler("block")
  \/ ListenStart
  \/ ListenSelect
  \/ ListenNilCheck
  \/ ListenReadFail
  \/ \E buf \in TouchReports, dt \in Ticks : ListenRead(1, buf, dt)

SpecTouch == InitPlus /\ [][NextTouch]_vars

\* the step has started every handler of the list, each with the arguments
\* of the event e, and nothing else
DispatchedTo(handlers, e) ==
  /\ Len(NewTasks) = Len(handlers)
  /\ \A h \in 1..Len(handlers) :
       /\ NewTasks[h].h = h
       /\ NewTasks[h].kind = handlers[h]
       /\ NewTasks[h].press \in (Len(events) + 1)..Len(events')
       /\ e = [x \in DOMAIN e |-> events'[NewTasks[h].press][x]]

\* the touch the report carries, its point read by pt
touchOf(buf, type, pt(_, _)) == [ev |-> "touch", type |-> type, p |-> pt(buf, 5)]

\* the swipe the report carries, its points read by pt
swipeOf(buf, pt(_, _)) ==
  [ev |-> "swipe", origin |-> pt(buf, 5), destination |-> pt(buf, 9)]

\* what a touch strip report dispatches when every byte pair is read high
\* byte first and the length of the report is not looked at
C28_StepHighFirst ==
  \A buf \in TouchReports, dt \in Ticks :
    ListenRead(1, buf, dt) =>
      LET th == touchStripInput.touchHandlers
          sh == touchStripInput.swipeHandlers
      IN  CASE at(buf, 3) = 1 ->
                 DispatchedTo(th, touchOf(buf, TOUCH_STRIP_TOUCH_TYPE_SHORT, pointAtHighFirst))
            [] at(buf, 3) = 2 ->
                 DispatchedTo(th, touchOf(buf, TOUCH_STRIP_TOUCH_TYPE_LONG, pointAtHighFirst))
            [] at(buf, 3) = 3 -> DispatchedTo(sh, swipeOf(buf, pointAtHighFirst))
            [] OTHER -> NewTasks = <<>> /\ events' = events

C28_Step ==
  \A buf \in TouchReports, dt \in Ticks :
    ListenRead(1, buf, dt) =>
      LET th == touchStripInput.touchHandlers
          sh == touchStripInput.swipeHandlers
      IN  CASE at(buf, 3) = 1 /\ Len(buf) >= 9 ->
                 DispatchedTo(th, touchOf(buf, TOUCH_STRIP_TOUCH_TYPE_SHORT, pointAt))
            [] at(buf, 3) = 2 /\ Len(buf) >= 9 ->
                 DispatchedTo(th, touchOf(buf, TOUCH_STRIP_TOUCH_TYPE_LONG, pointAt))
            [] at(buf, 3) = 3 /\ Len(buf) >= 13 ->
                 /\ DispatchedTo(sh, swipeOf(buf, pointAt))
                 /\ sh # <<>> =>
                      /\ events'[Len(events')].destination.X = at(buf, 9) + 256 * at(buf, 10)
                      /\ events'[Len(events')].destination.Y = at(buf, 11) + 256 * at(buf, 12)
                      /\ events'[Len(events')].origin.X = at(buf, 5) + 256 * at(buf, 6)
                      /\ events'[Len(events')].origin.Y = at(buf, 7) + 256 * at(buf, 8)
            [] OTHER -> NewTasks = <<>> /\ events' = events

ActiveDials == {1, dmodel.dialCount}

\* the sub-types of a dial report: edges, rotations and one that is none
DialSubTypes == {0, 1, 2}

\* a dial report: sub-type at byte 3, the byte of the first dial d1 and the
\* byte of the last dial dn
mkDial(sub, d1, dn) ==
  [k \in 1..BufLen |->
     IF k = 1 THEN 3 ELSE IF k = 4 THEN sub
     ELSE IF k = dmodel.dialStart + 1 THEN d1
     ELSE IF k = dmodel.dialStart + dmodel.dialCount THEN dn ELSE 0]

\* dial bytes: not pressed or not turned, 1, and 255, which is -1 as an int8
DialReports == {mkDial(sub, d1, dn) : sub \in DialSubTypes, d1 \in {0, 1, 255}, dn \in {0, 1}}

NextDial ==
  \/ \E di \in ActiveDials :
       ~Crashed /\ NumRegistered < MaxRegistered /\ AddDialSwitchHandler(di, "block")
  \/ \E di \in ActiveDials :
       ~Crashed /\ NumRegistered < MaxRegistered /\ AddDialRotateHandler(di, "block")
  \/ ListenStart
  \/ ListenSelect
  \/ ListenNilCheck
  \/ ListenReadFail
  \/ \E buf \in DialReports, dt \in Ticks : ListenRead(1, buf, dt)

SpecDial == InitPlus /\ [][NextDial]_vars

\* the dial bytes of a report
dialBytes(buf) == Slice(buf, dmodel.dialStart, dmodel.dialStart + dmodel.dialCount)

\* the dials with a non-zero byte, in the order of the report
RECURSIVE turned(_, _)
turned(states, i) ==
  IF i > Len(states) THEN <<>>
  ELSE IF states[i] # 0 THEN <<i>> \o turned(states, i + 1)
  ELSE turned(states, i + 1)

C29_Step ==
  \A buf \in DialReports, dt \in Ticks :
    ListenRead(1, buf, dt) /\ dialInputs # <<>> =>
      LET states == dialBytes(buf)
          new    == NewEvents
      IN  CASE at(buf, 3) = 0 ->
                 /\ \A k \in 1..Len(new) : new[k].ev \in {"dialPress", "dialRelease"}
                 /\ \A i \in 1..dmodel.dialCount :
                      LET mine == {k \in 1..Len(new) : new[k].slot = i}
                      IN  IF states[i] = dialStates[i] THEN mine = {}
                          ELSE /\ Cardinality(mine) = 1
                               /\ \A k \in mine :
                                    new[k].ev = IF states[i] > 0 THEN "dialPress"
                                                ELSE "dialRelease"
            [] at(buf, 3) = 1 ->
                 LET who == turned(states, 1)
                 IN  /\ Len(new) = Len(who)
                     /\ \A k \in 1..Len(who) :
                          /\ new[k].ev = "rotate"
                          /\ new[k].slot = who[k]
                          /\ new[k].delta = int8(states[who[k]])
                          /\ new[k].delta # 0
            [] OTHER -> TRUE

\* C29: once the dial slots exist, a dial report with sub-type 0 dispatches
\* a press or a release for exactly the dials whose byte differs from the
\* previous dial snapshot, and one with sub-type 1 dispatches one rotate per
\* dial with a non-zero byte, its delta being the byte read as an int8, and
\* none for a zero byte.
C29_DialEdgesAndRotations == [][C29_Step]_vars

(***************************************************************************)
(* The life of the slot table.                                             *)
(***************************************************************************)
\* Listen has passed its entry and is in its loop
ListenRunning == lpc \in {"select", "nilcheck", "read"}

\* the handlers of every slot of table a are still, in the same order, the
\* first handlers of the same slot of table b
HandlersKept(a, b) ==
  /\ Len(b) = Len(a)
  /\ \A i \in 1..Len(a) :
       /\ Len(b[i].handlers) >= Len(a[i].handlers)
       /\ SubSeq(b[i].handlers, 1, Len(a[i].handlers)) = a[i].handlers

C30_Step ==
  /\ ListenRunning' => inputs' # <<>>
  /\ lastCall'.op \in {"AddKeyHandler", "AddTouchPointHandler"} /\ lastCall'.err = "nil"
       => inputs' # <<>>
  /\ inputs # <<>> => HandlersKept(inputs, inputs')

\* C30: the slot table exists as soon as a handler has been registered or
\* Listen has started, and from then on it keeps the same slots and every
\* handler registered on them.
C30_SlotTableBuiltOnce == [][C30_Step]_vars

(***************************************************************************)
(* Edges that arrive while the slot tables do not exist.                   *)
(***************************************************************************)
\* key reports with the byte of the first key, and dial edge reports
EdgeReports ==
  {mkKindReport(1, b) : b \in {0, 1}}
    \cup {mkDial(0, d1, dn) : d1 \in {0, 1}, dn \in {0, 1}}

NextDrop ==
  \/ ~Crashed /\ NumRegistered < MaxRegistered /\ AddKeyHandler(1, "block")
  \/ ~Crashed /\ NumRegistered < MaxRegistered /\ AddDialSwitchHandler(1, "block")
  \/ ListenStart
  \/ ListenSelect
  \/ ListenNilCheck
  \/ ListenReadFail
  \/ \E buf \in EdgeReports, dt \in Ticks : ListenRead(1, buf, dt)

SpecDrop == InitPlus /\ [][NextDrop]_vars

\* the report has an edge, and the table of its controls does not exist
EdgeOutsideTable(buf) ==
  \/ isKeyReport(buf) /\ inputs = <<>> /\ reportStates(buf) # keyStates
  \/ isDialReport(buf) /\ dialInputs = <<>>
       /\ Slice(buf, dmodel.dialStart, dmodel.dialStart + dmodel.dialCount) # dialStates

C31_Step ==
  \A buf \in EdgeReports, dt \in Ticks :
    ListenRead(1, buf, dt) /\ EdgeOutsideTable(buf) =>
      /\ NewEvents = <<>>
      /\ NewTasks = <<>>
      /\ lpc' = "select"
      /\ lret' = lret
      /\ errCh' = errCh

\* C31: an edge of a key, touch point or dial whose slot table does not
\* exist yet is dropped: no handler is started, nothing is sent on the error
\* channel, Listen returns no error and goes on polling.
C31_EdgeOutsideTableDropped == [][C31_Step]_vars

\* Listen has read the press of the first key and of the first dial while
\* no table existed, started nothing, and polls again
C31_Witness ==
  /\ inputs = <<>>
  /\ dialInputs = <<>>
  /\ keyStates # <<>> /\ keyStates[1] = 1
  /\ dialStates # <<>> /\ dialStates[1] = 1
  /\ tasks = <<>>
  /\ lpc = "select"

(***************************************************************************)
(* getScaledRect applied to what it returned.                              *)
(***************************************************************************)
\* C34: getScaledRect is idempotent: for a source and a target with positive
\* dimensions, the rectangle it returns, when it is not empty, is returned
\* again when it is given as the source with the same target.
C34_ScaledRectIdempotent ==
  imgCall.fn = "getScaledRect" /\ imgCall.pc = "returned"
    /\ Dx(imgCall.ret) > 0 /\ Dy(imgCall.ret) > 0 =>
    getScaledRect(imgCall.ret, imgCall.args[2]) = imgCall.ret

(***************************************************************************)
(* Key images sent page by page: every model, the first key, the second    *)
(* and the last, a short output report and the one of the Stream Decks,    *)
(* payloads around one and two pages, and a transport that fails.          *)
(***************************************************************************)
PageCaps == {32, 1024}

\* payload lengths: none, a byte, a page but a byte, a page, a page and a
\* byte, two pages, two pages and a byte
PageLens(cap) ==
  LET step == cap - dmodel.hdrLen
  IN  {0, 1, step - 1, step, step + 1, 2 * step, 2 * step + 1}

\* n bytes, none of them 0, each other than the next
imgDataOf(n) == [k \in 1..n |-> ((k - 1) % 255) + 1]

\* SetOutputReport fails at once, after one page, or never
OkCounts == {0, 1, 3}

InitPages ==
  /\ pid \in DOMAIN models
  /\ imgCall \in {imgCallOf("keyImageSend", <<key, imgDataOf(n), cap, okN>>) :
                    key \in {1, 2, dmodel.keyCount}, cap \in PageCaps,
                    n \in UNION {PageLens(c) : c \in PageCaps}, okN \in OkCounts}
  /\ open = FALSE
  /\ devOpen = FALSE
  /\ listen = 0
  /\ closedChans = {}
  /\ nextChan = 1
  /\ inputs = <<>>
  /\ keyStates = <<>>
  /\ now = 1
  /\ lpc = "none"
  /\ lret = "none"
  /\ cpc = "none"
  /\ cio = <<>>
  /\ tasks = <<>>
  /\ lastCall = [op |-> "none", err |-> "nil", io |-> <<>>]
  /\ nReports = 0
  /\ nOpens = 0
  /\ reg = noReg
  /\ dialStates = <<>>
  /\ query = noQuery
  /\ lookup = noLookup
  /\ attached = <<>>
  /\ walk = noWalk
  /\ lastReport = Zeros(NumSlots)
  /\ events = <<>>
  /\ send = noSend
  /\ errCh = noErrCh
  /\ dialInputs = <<>>
  /\ touchStripInput = noTouchStripInput

NextPages == KeyImageSend

SpecPages == InitPages /\ [][NextPages]_vars

KeyImageSent == imgCall.fn = "keyImageSend" /\ imgCall.pc = "returned"

\* the places, in the record of a call, of the reports written
Writes(log) == {k \in 1..Len(log) : log[k].op = "SetOutputReport"}

\* C32: every output report imageSend writes has the length of the output
\* report of the transport: the header as the callback left it, then the
\* chunk, of at most that length minus the header's, then zeros; and the
\* callback is called once per page, right before the page is written, with
\* the index of the page, its last flag and the size of its chunk.
C32_ReportLayout ==
  KeyImageSent =>
    LET log  == imgCall.ret.log
        key  == imgCall.args[1]
        data == imgCall.args[2]
        cap  == imgCall.args[3]
        hl   == dmodel.hdrLen
        step == cap - hl
    IN  /\ \A k \in 1..Len(log) :
             log[k].op = IF k % 2 = 1 THEN "updateCb" ELSE "SetOutputReport"
        /\ \A k \in 1..Len(log) : log[k].op = "updateCb" =>
             /\ log[k].page = (k - 1) \div 2
             /\ log[k].last = IF ((k + 1) \div 2) * step >= Len(data) THEN 1 ELSE 0
             /\ log[k].size = IF log[k].last = 1 THEN Len(data) - ((k - 1) \div 2) * step
                               ELSE step
        /\ \A k \in Writes(log) :
             LET r    == log[k].payload
                 size == log[k - 1].size
                 from == ((k - 2) \div 2) * step
             IN  /\ Len(r) = cap
                 /\ size <= cap - hl
                 /\ SubSeq(r, 1, hl) = keyImageUpdate(keyImageHdr(key), log[k - 1].page,
                                                      log[k - 1].last, size)
                 /\ SubSeq(r, hl + 1, hl + size) = SubSeq(data, from + 1, from + size)
                 /\ \A j \in (hl + size + 1)..cap : r[j] = 0

\* a payload of a page and a byte on the short report: two pages written,
\* the second with one byte of payload and zeros after it
C32_Witness ==
  /\ KeyImageSent
  /\ imgCall.args[3] = 32
  /\ Len(imgCall.args[2]) = 32 - dmodel.hdrLen + 1
  /\ imgCall.ret.err = "nil"
  /\ Len(imgCall.ret.log) = 4
  /\ imgCall.ret.log[4].payload[dmodel.hdrLen + 1] # 0
  /\ imgCall.ret.log[4].payload[dmodel.hdrLen + 2] = 0

\* C33: the pages of a key image carry the header of the model: on the
\* 6-key model 15 bytes with the page index at byte 1, the last flag at
\* byte 3 and the key counted from 1 at byte 4; on the other models 7 bytes
\* with the key counted from 0 at byte 1, the last flag at byte 2, the size
\* of the page as a little-endian 16-bit value at bytes 3..4 and the page
\* index at byte 5.
C33_KeyImageHeader ==
  KeyImageSent =>
    \A k \in Writes(imgCall.ret.log) :
      LET r    == imgCall.ret.log[k].payload
          page == k \div 2 - 1
          last == IF k = Len(imgCall.ret.log) /\ imgCall.ret.err = "nil" THEN 1 ELSE 0
          size == Len(SelectSeq(SubSeq(r, dmodel.hdrLen + 1, Len(r)), LAMBDA b : b # 0))
      IN  IF dmodel.keyCount = 6
            THEN /\ dmodel.hdrLen = 15
                 /\ at(r, 1) = page
                 /\ at(r, 3) = last
                 /\ at(r, 4) = imgCall.args[1]
            ELSE /\ dmodel.hdrLen = 7
                 /\ at(r, 1) = imgCall.args[1] - 1
                 /\ at(r, 2) = last
                 /\ at(r, 3) + 256 * at(r, 4) = size
                 /\ at(r, 5) = page

\* the second page of an image for the last key of a 7-byte-header model
\* on the 1024-byte report: a full first page of 1017 bytes went before
C33_Witness ==
  /\ KeyImageSent
  /\ dmodel.keyCount # 6
  /\ imgCall.args[1] = dmodel.keyCount
  /\ imgCall.args[3] = 1024
  /\ Len(imgCall.ret.log) = 4
  /\ at(imgCall.ret.log[2].payload, 3) + 256 * at(imgCall.ret.log[2].payload, 4) = 1017
  /\ at(imgCall.ret.log[4].payload, 5) = 1
  /\ at(imgCall.ret.log[4].payload, 2) = 1

(***************************************************************************)
(* The counters of imageSend.                                              *)
(***************************************************************************)
\* C35: the counters of imageSend never wrap, whatever the length of the
\* payload and of the output report: no slice has its start after its end,
\* the end of every chunk written and the start of the next lie within the
\* payload, the page index given to the callback is the number of pages
\* written before, and an empty payload is sent as exactly one page.
C35_CountersNeverWrap ==
  /\ send.pc # "panic"
  /\ send.pc \in {"loop", "done"} /\ send.nPages > 0 => send.next \in 0..send.len
  /\ send.pc = "loop" =>
       /\ send.start \in 0..send.len
       /\ send.page = send.nPages
  /\ send.pc = "done" /\ send.len = 0 => send.nPages = 1

(***************************************************************************)
(* Handlers registered by two goroutines at once, with Listen polling.     *)
(***************************************************************************)
\* the handler each goroutine registers, so that the two can be told apart
RegFn(t) == IF t = 1 THEN "block" ELSE "wait"

NextRace ==
  \/ \E t \in RegTasks : ~Crashed /\ RegCall(t, 1, RegFn(t))
  \/ \E t \in RegTasks : ~Crashed /\ RegCheck(t)
  \/ \E t \in RegTasks : ~Crashed /\ RegCreate(t)
  \/ \E t \in RegTasks : ~Crashed /\ RegAdd(t)
  \/ ListenStart
  \/ ListenSelect
  \/ ListenNilCheck
  \/ ListenReadFail
  \/ \E buf \in Reports, dt \in Ticks : ListenRead(1, buf, dt)

SpecRace == InitInput /\ [][NextRace]_vars

\* C36: every registration that returned nil is kept, whatever else ran at
\* the same time: the handler is in the slot of its key, so that every later
\* press of the key starts it.
C36_RegistrationsKept ==
  \A t \in RegTasks :
    reg[t].pc = "returned" /\ reg[t].err = "nil" =>
      /\ inputs # <<>>
      /\ \E h \in 1..Len(inputs[KeySlot(reg[t].key)].handlers) :
           inputs[KeySlot(reg[t].key)].handlers[h] = reg[t].fn

(***************************************************************************)
(* Close when a display cannot be cleared: any of the writes of            *)
(* closeDisplays fails, while Listen polls or not.                         *)
(***************************************************************************)
NextCloseFail ==
  \/ \E ok \in BOOLEAN : Open(ok)
  \/ \E failAt \in 0..Len(closeDisplays) : CloseStart(failAt)
  \/ CloseSignal
  \/ CloseNil
  \/ CloseDev
  \/ ListenStart
  \/ ListenSelect
  \/ ListenNilCheck
  \/ ListenReadFail

SpecCloseFail == Init /\ [][NextCloseFail]_vars

C37_Step ==
  \A failAt \in 1..Len(closeDisplays) :
    IsOpen /\ CloseStart(failAt) =>
      /\ lastCall'.op = "Close"
      /\ lastCall'.err = "ErrSetOutputReportFailed"
      /\ lastCall'.io = SubSeq(closeDisplays, 1, failAt)
      /\ IsOpen'
      /\ listen' = listen
      /\ closedChans' = closedChans
      /\ devOpen'
      /\ cpc' = "none"
      /\ validateOpen' = "nil"

\* C37: when a display cannot be cleared during Close, Close returns that
\* error and the device stays open: the stop channel is neither closed nor
\* set to nil, the transport is not closed, IsOpen is still true, and the
\* next Close passes validateOpen and is carried out again.
C37_FailedCloseStaysOpen == [][C37_Step]_vars

\* Close has failed on the last display of a device with more than one,
\* while Listen was polling: the device is open and its stop channel is not
\* closed
C37_Witness ==
  /\ lastCall.op = "Close"
  /\ lastCall.err = "ErrSetOutputReportFailed"
  /\ Len(lastCall.io) = Len(closeDisplays)
  /\ Len(lastCall.io) > 1
  /\ IsOpen
  /\ listen # 0
  /\ listen \notin closedChans
  /\ lpc = "read"

(***************************************************************************)
(* Routing: two controls of each table carry handlers of different kinds,  *)
(* the first one "block" and the last one "wait"; primary reports move the *)
(* first and the last slot, dial reports the first and the last dial.      *)
(***************************************************************************)
InitRoute ==
  \/ InitPlus
  \/ InitInput /\ pid = 154

\* a primary report with the byte of the first slot at v1 and the byte of
\* the last slot at vn
mkRoute(v1, vn) ==
  [k \in 1..BufLen |->
     IF k - 1 = SlotOffset(1) THEN v1
     ELSE IF k - 1 = SlotOffset(NumSlots) THEN vn
     ELSE IF k = 1 /\ dmodel.keyStart > 0 THEN 1 ELSE 0]

RouteReports ==
  IF dmodel.dialCount > 0
    THEN {mkRoute(v1, 0) : v1 \in {0, 1}}
         \cup {mkDial(0, d1, dn) : d1 \in {0, 1}, dn \in {0, 1}}
    ELSE {mkRoute(v1, vn) : v1 \in {0, 1}, vn \in {0, 1}}

NextRoute ==
  \/ ~Crashed /\ NumRegistered < MaxRegistered /\ AddKeyHandler(1, "block")
  \/ ~Crashed /\ NumRegistered < MaxRegistered
       /\ AddTouchPointHandler(dmodel.touchPointCount, "wait")
  \/ ~Crashed /\ NumRegistered < MaxRegistered /\ AddDialSwitchHandler(1, "block")
  \/ ~Crashed /\ NumRegistered < MaxRegistered
       /\ AddDialSwitchHandler(dmodel.dialCount, "wait")
  \/ ListenStart
  \/ ListenSelect
  \/ ListenNilCheck
  \/ ListenReadFail
  \/ \E buf \in RouteReports, dt \in Ticks : ListenRead(1, buf, dt)

SpecRoute == InitRoute /\ [][NextRoute]_vars

\* the kind of the handlers registered for the control at index i of a
\* table of n controls: the first control, the last control, any other
RouteFn(i, n) == IF i = 1 THEN "block" ELSE IF i = n THEN "wait" ELSE "none"

\* every handler sits in the slot of the control it was registered for
HandlersInPlace ==
  /\ \A i \in 1..Len(inputs) : \A h \in 1..Len(inputs[i].handlers) :
       inputs[i].handlers[h] = RouteFn(i, NumSlots)
  /\ \A i \in 1..Len(dialInputs) : \A h \in 1..Len(dialInputs[i].switchHandlers) :
       dialInputs[i].switchHandlers[h] = RouteFn(i, dmodel.dialCount)

\* the indices the new events of kinds evs are about
EdgeSlots(evs) == {NewEvents[n].slot : n \in {m \in 1..Len(NewEvents) : NewEvents[m].ev \in evs}}

C38_Step ==
  /\ HandlersInPlace'
  /\ ReportStep =>
       /\ \A n \in 1..Len(NewTasks) :
            LET task == NewTasks[n]
                e    == events'[task.press]
            IN  /\ task.press > Len(events)
                /\ e.slot = task.slot
                /\ e.ev \in {"press", "dialPress"}
                /\ e.ev = "press" =>
                     /\ task.kind = RouteFn(task.slot, NumSlots)
                     /\ lastReport'[task.slot] # keyStates[task.slot]
                /\ e.ev = "dialPress" =>
                     /\ task.kind = RouteFn(task.slot, dmodel.dialCount)
                     /\ ~Crashed' => dialStates'[task.slot] # dialStates[task.slot]
       /\ Len(inputs') = Len(inputs)
       /\ Len(dialInputs') = Len(dialInputs)
       /\ \A i \in 1..Len(inputs) :
            i \notin EdgeSlots({"press", "release"}) => inputs'[i] = inputs[i]
       /\ \A i \in EdgeSlots({"press", "release"}) : lastReport'[i] # keyStates[i]
       /\ \A i \in 1..Len(dialInputs) :
            i \notin EdgeSlots({"dialPress", "dialRelease"}) => dialInputs'[i] = dialInputs[i]
       /\ EdgeSlots({"press", "release"}) # {} => dialInputs' = dialInputs
       /\ EdgeSlots({"dialPress", "dialRelease"}) # {} => inputs' = inputs

\* C38: an edge at index i of a primary report reaches only the handlers
\* of the control at that position (key i+1 below keyCount, touch point j+1
\* at keyCount+j), an edge at index k of a dial report only those of dial
\* k+1; the slots of the controls without an edge keep their state.
C38_EdgeReachesItsControl == [][C38_Step]_vars

\* on a device with touch points, the handler of the first key and the
\* handler of the last touch point have both been started, each by a press
\* at the index of its own control
C38_Witness ==
  /\ dmodel.touchPointCount > 0
  /\ \E a, b \in 1..Len(tasks) :
       /\ tasks[a].slot = 1 /\ tasks[a].kind = "block"
       /\ tasks[b].slot = dmodel.keyCount + dmodel.touchPointCount /\ tasks[b].kind = "wait"
       /\ events[tasks[a].press].ev = "press"
       /\ events[tasks[b].press].ev = "press"

(***************************************************************************)
(* Frames: a device with keys, dials and a touch strip; the first key and  *)
(* the first dial carry handlers and are pressed and released while touch  *)
(* strip reports and dial rotation reports arrive.                         *)
(***************************************************************************)
FrameReports ==
  {mkRoute(v1, 0) : v1 \in {0, 1}}
  \cup {mkDial(sub, d1, 0) : sub \in {0, 1}, d1 \in {0, 1}}
  \cup {mkTouch(1, BufLen, 0)}

NextFrame ==
  \/ lpc = "none" /\ NumRegistered < MaxRegistered /\ AddKeyHandler(1, "block")
  \/ lpc = "none" /\ NumRegistered < MaxRegistered /\ AddDialSwitchHandler(1, "block")
  \/ lpc = "none" /\ NumRegistered < MaxRegistered /\ AddDialRotateHandler(1, "block")
  \/ lpc = "none" /\ NumRegistered < MaxRegistered /\ AddTouchStripTouchHandler("block")
  \/ ListenStart
  \/ ListenSelect
  \/ ListenNilCheck
  \/ ListenReadFail
  \/ \E buf \in FrameReports, dt \in Ticks : ListenRead(1, buf, dt)

SpecFrame == InitPlus /\ [][NextFrame]_vars

\* what a dial slot holds besides its handlers
dialCore(in) ==
  [pressed |-> in.pressed, released |-> in.released, duration |-> in.duration,
   channel |-> in.channel]

C39_Step ==
  \A buf \in FrameReports, dt \in Ticks :
    ListenRead(1, buf, dt) =>
      /\ isTouchStripReport(buf) \/ isDialReport(buf) =>
           /\ keyStates' = keyStates
           /\ inputs' = inputs
      /\ isDialReport(buf) /\ at(buf, 3) = 1 =>
           /\ dialStates' = dialStates
           /\ closedChans' = closedChans
           /\ Len(dialInputs') = Len(dialInputs)
           /\ \A i \in 1..Len(dialInputs) :
                dialCore(dialInputs'[i]) = dialCore(dialInputs[i])

\* C39: a touch-strip report or a dial report leaves the snapshot of the
\* keys and touch points and every key and touch-point slot as they were; a
\* dial rotation report also leaves the dial snapshot and, of every dial,
\* the press and release times, the duration and the channel as they were.
C39_OtherReportsKeepSlots == [][C39_Step]_vars

\* the first key and the first dial are held down, and a rotation of the
\* first dial has been dispatched since
C39_Witness ==
  /\ inputs # <<>> /\ inputs[1].pressed # 0
  /\ dialInputs # <<>> /\ dialInputs[1].pressed # 0
  /\ keyStates # <<>> /\ keyStates[1] = 1
  /\ dialStates # <<>> /\ dialStates[1] = 1
  /\ events # <<>> /\ events[Len(events)].ev = "rotate"

(***************************************************************************)
(* The state of one slot between the edges.                                *)
(***************************************************************************)
\* the time of the last press dispatched to slot i, 0 when there is none
lastPressTime(i) ==
  LET ps == {n \in 1..Len(events) : events[n].ev = "press" /\ events[n].slot = i}
  IN  IF ps = {} THEN 0
      ELSE events[CHOOSE n \in ps : \A m \in ps : m <= n].t

slotConsistent(i) ==
  LET in == inputs[i]
  IN  /\ ~(in.pressed # 0 /\ in.released # 0)
      /\ in.pressed # 0 =>
           /\ in.duration = 0
           /\ in.channel # 0
           /\ in.channel \notin closedChans
      /\ in.released # 0 =>
           /\ lastPressTime(i) # 0
           /\ in.duration = in.released - lastPressTime(i)
           /\ in.channel \in closedChans

\* C40: in every reachable state, of each slot: the press time and the
\* release time are never both set; while it is pressed its duration is 0
\* and its channel is open; after a release its duration is the release
\* time minus the press time and its channel is closed.
C40_SlotConsistent == \A i \in 1..Len(inputs) : slotConsistent(i)

====
